---------------------------- MODULE Spec2Model ----------------------------
(***************************************************************************)
(* A model of geospatialimpactmonitor.py: the spatial matching engine      *)
(* (run_impact_analysis), the outage source merger (fetch_power_outages)   *)
(* and the coverage-triggered fallback decision.                           *)
(*                                                                         *)
(* Coordinates are integers in units of 0.0005 degree; a point is          *)
(* <<x, y>> = <<lon, lat>>, as in Point(row['lon'], row['lat']).           *)
(***************************************************************************)
EXTENDS Integers, Sequences, FiniteSets, TLC

(***************************************************************************)
(* Bounds of the model.                                                    *)
(***************************************************************************)
MaxWeather == 1
MaxPoints == 1
MaxTotal == 50
MaxHifld == 2
MaxOdin == 2

(***************************************************************************)
(* Python values: None, an absent dict key, and dict.get / truthiness.     *)
(***************************************************************************)
NONE == "<None>"
MISSING == "<missing>"
NoneNum == -1
MissingNum == -2
\* A null where a coordinate is expected.
NoCoord == -99999

Get(props, k, default) == IF props[k] = MISSING THEN default ELSE props[k]
GetNum(props, k, default) == IF props[k] = MissingNum THEN default ELSE props[k]
Truthy(s) == s \notin {NONE, MISSING, ""}
OrZero(n) == IF n \in {NoneNum, MissingNum, 0} THEN 0 ELSE n

\* f"{...}": None formats as "None".
Str(v) == IF v = NONE THEN "None" ELSE v
StrNum(n) == IF n = NoneNum THEN "None" ELSE ToString(n)

MinOf(S) == CHOOSE m \in S : \A n \in S : m <= n
MaxOf(S) == CHOOSE m \in S : \A n \in S : m >= n
Abs(n) == IF n < 0 THEN -n ELSE n

(***************************************************************************)
(* Planar geometry (shapely).  A parsed geometry is a sequence of convex   *)
(* rings with pairwise disjoint interiors (a Polygon has one ring, the     *)
(* MultiPolygon that make_valid returns has several); an empty geometry    *)
(* has none.  A ring is the tuple of its vertices without the closing one. *)
(***************************************************************************)
PointBufferRadius == 2
QuakeBufferRadius == 1000

Cross(a, b, c) == (b[1] - a[1]) * (c[2] - a[2]) - (b[2] - a[2]) * (c[1] - a[1])
Dot(a, b, c) == (b[1] - a[1]) * (c[1] - a[1]) + (b[2] - a[2]) * (c[2] - a[2])
Dist2(a, b) == Dot(a, b, b)

RingEdges(ring) == { <<ring[i], ring[(i % Len(ring)) + 1]>> : i \in 1..Len(ring) }
RingCorners(ring) ==
    { <<ring[i], ring[(i % Len(ring)) + 1], ring[((i + 1) % Len(ring)) + 1]>> : i \in 1..Len(ring) }

\* The point lies in the interior of the convex ring (either orientation).
RingContains(ring, p) ==
    \/ \A e \in RingEdges(ring) : Cross(e[1], e[2], p) > 0
    \/ \A e \in RingEdges(ring) : Cross(e[1], e[2], p) < 0

\* The point lies in the interior or on the boundary of the convex ring.
RingCovers(ring, p) ==
    \/ \A e \in RingEdges(ring) : Cross(e[1], e[2], p) >= 0
    \/ \A e \in RingEdges(ring) : Cross(e[1], e[2], p) <= 0

\* The segment a-b comes within distance r of p (exact integer arithmetic;
\* the first conjunct of the last case is implied by the second and keeps
\* the square small).
SegmentWithin(a, b, p, r) ==
    LET t == Dot(a, b, p)
        len2 == Dist2(a, b)
        c == Abs(Cross(a, b, p))
    IN  IF t <= 0 THEN Abs(p[1] - a[1]) <= r /\ Abs(p[2] - a[2]) <= r /\ Dist2(a, p) <= r * r
        ELSE IF t >= len2 THEN Abs(p[1] - b[1]) <= r /\ Abs(p[2] - b[2]) <= r /\ Dist2(b, p) <= r * r
        ELSE /\ c <= r * (Abs(b[1] - a[1]) + Abs(b[2] - a[2]))
             /\ c * c <= r * r * len2

\* geom.contains(point): the point is in the interior of the geometry.
Contains(geom, p) == \E k \in 1..Len(geom) : RingContains(geom[k], p)

\* geom.intersects(point.buffer(r)): the geometry meets the disc of radius r
\* around the point.  (shapely's buffer is the inscribed 64-gon of that
\* disc; the two differ only for distances within 0.12% of r, which no
\* coordinate of this model produces.)
IntersectsBuffer(geom, p, r) ==
    \E k \in 1..Len(geom) :
        \/ RingCovers(geom[k], p)
        \/ \E e \in RingEdges(geom[k]) : SegmentWithin(e[1], e[2], p, r)

Vertices(geom) == UNION { { geom[k][i] : i \in 1..Len(geom[k]) } : k \in 1..Len(geom) }

\* geom.bounds: <<minx, miny, maxx, maxy>>.
Envelope(geom) ==
    LET vs == Vertices(geom)
    IN  << MinOf({v[1] : v \in vs}), MinOf({v[2] : v \in vs}),
           MaxOf({v[1] : v \in vs}), MaxOf({v[2] : v \in vs}) >>

IsEmpty(geom) == Len(geom) = 0

RingIsConvex(ring) ==
    /\ Len(ring) >= 3
    /\ \/ \A c \in RingCorners(ring) : Cross(c[1], c[2], c[3]) > 0
       \/ \A c \in RingCorners(ring) : Cross(c[1], c[2], c[3]) < 0

\* poly.is_valid, for the rings of this model: a convex ring is a simple
\* ring of non-zero area; the other rings here are self-intersecting.
IsValid(geom) == \A k \in 1..Len(geom) : RingIsConvex(geom[k])

\* Where the lines a-b and c-d cross (the rings of this model cross at
\* integer points).
CrossingPoint(a, b, c, d) ==
    LET den == (b[1] - a[1]) * (d[2] - c[2]) - (b[2] - a[2]) * (d[1] - c[1])
        num == (c[1] - a[1]) * (d[2] - c[2]) - (c[2] - a[2]) * (d[1] - c[1])
    IN  << a[1] + (num * (b[1] - a[1])) \div den, a[2] + (num * (b[2] - a[2])) \div den >>

\* make_valid(poly) of a self-intersecting quadrilateral a-b-c-d whose edges
\* a-b and c-d cross at x: the MultiPolygon of the triangles x-b-c and a-x-d.
\* Any other geometry is returned as it is.
MakeValid(geom) ==
    IF Len(geom) = 1 /\ Len(geom[1]) = 4 /\ ~RingIsConvex(geom[1])
    THEN LET a == geom[1][1]
             b == geom[1][2]
             c == geom[1][3]
             d == geom[1][4]
             x == CrossingPoint(a, b, c, d)
         IN  << <<x, b, c>>, <<a, x, d>> >>
    ELSE geom

\* cos and sin of k * 5.625 degrees, times QuakeBufferRadius, rounded.
CircleQuadrant ==
    << <<1000, 0>>, <<995, 98>>, <<981, 195>>, <<957, 290>>, <<924, 383>>,
       <<882, 471>>, <<831, 556>>, <<773, 634>>, <<707, 707>>, <<634, 773>>,
       <<556, 831>>, <<471, 882>>, <<383, 924>>, <<290, 957>>, <<195, 981>>,
       <<98, 995>> >>

CircleVertex(k) ==
    LET q == k \div 16
        v == CircleQuadrant[(k % 16) + 1]
    IN  CASE q = 0 -> <<v[1], v[2]>>
          [] q = 1 -> <<-v[2], v[1]>>
          [] q = 2 -> <<-v[1], -v[2]>>
          [] OTHER -> <<v[2], -v[1]>>

CircleRing == [k \in 1..64 |-> CircleVertex(k - 1)]

\* quake_point.buffer(0.5): the 64-gon (16 segments per quarter circle)
\* inscribed in the circle of 0.5 degree around the point.
Buffer(center) ==
    << [k \in 1..64 |-> <<center[1] + CircleRing[k][1], center[2] + CircleRing[k][2]>>] >>

\* Buffer(center).bounds: the 64-gon has a vertex on each axis direction.
BufferEnvelope(center) ==
    << center[1] - QuakeBufferRadius, center[2] - QuakeBufferRadius,
       center[1] + QuakeBufferRadius, center[2] + QuakeBufferRadius >>

(***************************************************************************)
(* Severity classification.                                                *)
(***************************************************************************)
SEVERITY_LEVELS == [Extreme |-> 4, Severe |-> 3, Moderate |-> 2, Minor |-> 1, Unknown |-> 0]

LOW_PRIORITY_EVENTS ==
    { "Special Weather Statement", "Air Quality Alert", "Beach Hazards Statement",
      "Rip Current Statement", "Marine Weather Statement", "Hydrologic Outlook",
      "Short Term Forecast", "Hazardous Weather Outlook" }

get_severity_rank(severity_str) ==
    IF ~Truthy(severity_str) THEN 0
    ELSE IF severity_str \in DOMAIN SEVERITY_LEVELS THEN SEVERITY_LEVELS[severity_str]
    ELSE 0

\* Mutant: a feature ranked exactly at the threshold is rejected.
passes_severity_threshold_strict(alert_props, min_rank, exclude_low) ==
    LET severity == Get(alert_props, "severity", "Unknown")
        event == Get(alert_props, "event", "")
    IN  /\ ~(get_severity_rank(severity) <= min_rank)
        /\ ~(exclude_low /\ event \in LOW_PRIORITY_EVENTS)

passes_severity_threshold(alert_props, min_rank, exclude_low) ==
    LET severity == Get(alert_props, "severity", "Unknown")
        event == Get(alert_props, "event", "")
    IN  /\ ~(get_severity_rank(severity) < min_rank)
        /\ ~(exclude_low /\ event \in LOW_PRIORITY_EVENTS)

(***************************************************************************)
(* Strings: Python compares them by code point; sorted() and str.join.     *)
(***************************************************************************)
\* The printable ASCII characters in code order: codes 32 to 95, and 97 to
\* 126 (no description holds a grave accent, code 96).
AsciiLow == " !\"#$%&'()*+,-./0123456789:;<=>?@ABCDEFGHIJKLMNOPQRSTUVWXYZ[\\]^_"
AsciiHigh == "abcdefghijklmnopqrstuvwxyz{|}~"

PositionIn(alphabet, c) == { k \in 1..Len(alphabet) : SubSeq(alphabet, k, k) = c }

CodePoint(c) ==
    IF PositionIn(AsciiLow, c) # {} THEN 31 + MinOf(PositionIn(AsciiLow, c))
    ELSE 96 + MinOf(PositionIn(AsciiHigh, c))

\* a < b for two strings, from position k on.
RECURSIVE StrLessFrom(_, _, _)
StrLessFrom(a, b, k) ==
    IF k > Len(a) THEN k <= Len(b)
    ELSE IF k > Len(b) THEN FALSE
    ELSE IF SubSeq(a, k, k) = SubSeq(b, k, k) THEN StrLessFrom(a, b, k + 1)
    ELSE CodePoint(SubSeq(a, k, k)) < CodePoint(SubSeq(b, k, k))

StrLess(a, b) == StrLessFrom(a, b, 1)

\* sorted(S) of a set of strings.
RECURSIVE Sorted(_)
Sorted(S) ==
    IF S = {} THEN <<>>
    ELSE LET first == CHOOSE a \in S : \A b \in S \ {a} : StrLess(a, b)
         IN  <<first>> \o Sorted(S \ {first})

\* sep.join(parts)
RECURSIVE Join(_, _)
Join(parts, sep) ==
    IF parts = <<>> THEN ""
    ELSE IF Len(parts) = 1 THEN parts[1]
    ELSE parts[1] \o sep \o Join(Tail(parts), sep)

(***************************************************************************)
(* Hazard descriptions.                                                    *)
(***************************************************************************)
\* "{event} ({severity}/{urgency})", or "{event} ({severity})" when the
\* urgency is empty or 'Unknown'.
AlertText(event_name, severity, urgency) ==
    IF Truthy(urgency) /\ urgency # "Unknown"
    THEN Str(event_name) \o " (" \o Str(severity) \o "/" \o urgency \o ")"
    ELSE Str(event_name) \o " (" \o Str(severity) \o ")"

WeatherDesc(props) ==
    LET event_name ==
            IF Truthy(Get(props, "event", NONE)) THEN props.event
            ELSE IF Truthy(Get(props, "prod_type", NONE)) THEN props.prod_type
            ELSE Get(props, "phenomena", "WX")
    IN  AlertText(event_name, Get(props, "severity", "Unknown"), Get(props, "urgency", ""))

\* "Power Outage: {Percent_Out}% - {NAME}"
OutageDesc(props) ==
    "Power Outage: "
        \o (IF props.Percent_Out = MissingNum THEN "N/A" ELSE StrNum(props.Percent_Out))
        \o "% - " \o Str(Get(props, "NAME", "Unknown"))

TwoDigits(n) == IF n < 10 THEN "0" \o ToString(n) ELSE ToString(n)

\* datetime.fromtimestamp(ms / 1000).strftime('%Y-%m-%d %H:%M'), for a time
\* within the first day of the epoch, in UTC.
TimeStr(ms) ==
    LET seconds == ms \div 1000
    IN  "1970-01-01 " \o TwoDigits((seconds \div 3600) % 24) \o ":" \o TwoDigits((seconds \div 60) % 60)

\* "Earthquake M{mag} near {place} ({time_str})"
EarthquakeDesc(props) ==
    "Earthquake M" \o StrNum(GetNum(props, "mag", 0))
        \o " near " \o Str(Get(props, "place", "Unknown location"))
        \o " (" \o TimeStr(GetNum(props, "time", 0)) \o ")"

(***************************************************************************)
(* GeoJSON geometry and shapely.geometry.shape.                            *)
(***************************************************************************)
NoGeometry == [type |-> NONE, coordinates |-> <<>>]

GeomIsNone(geom) == geom.type = NONE

\* A geometry that is a non-empty JSON array where an object is expected:
\* it is not None and truthy, and it has no get method.
ARRAY == "<array>"
GeomIsArray(geom) == geom.type = ARRAY

\* _is_coordinates_empty for the coordinates of a Point: every one is null.
PointCoordinatesEmpty(coordinates) == \A i \in DOMAIN coordinates : coordinates[i] = NoCoord

\* shape(geom) raises on a geometry without a known type, on a Polygon whose
\* ring has 1 to 3 positions and on a Point that has some coordinate but
\* fewer than 2 or a null among them.
ShapeRaises(geom) ==
    \/ geom.type \notin {"Polygon", "Point"}
    \/ geom.type = "Polygon" /\ Len(geom.coordinates[1]) \in 1..3
    \/ /\ geom.type = "Point"
       /\ ~PointCoordinatesEmpty(geom.coordinates)
       /\ \/ Len(geom.coordinates) < 2
          \/ \E i \in DOMAIN geom.coordinates : geom.coordinates[i] = NoCoord

\* shape(geom) of a Polygon: its exterior ring, the closing position dropped;
\* the empty polygon when the ring has no position.
Shape(geom) ==
    IF Len(geom.coordinates[1]) = 0 THEN <<>>
    ELSE << SubSeq(geom.coordinates[1], 1, Len(geom.coordinates[1]) - 1) >>

\* shape(geom) of a Point: the empty point when every coordinate is null.
ShapePoint(geom) ==
    IF PointCoordinatesEmpty(geom.coordinates) THEN <<>>
    ELSE << geom.coordinates[1], geom.coordinates[2] >>

(***************************************************************************)
(* The inputs the model draws from.                                        *)
(***************************************************************************)
Polygon(ring) == [type |-> "Polygon", coordinates |-> <<ring>>]

TriangleRing == << <<0, 0>>, <<8, 0>>, <<0, 8>>, <<0, 0>> >>
BowtieRing == << <<20, 0>>, <<24, 4>>, <<24, 0>>, <<20, 4>>, <<20, 0>> >>
CountyRing == << <<1, 2>>, <<5, 2>>, <<5, 5>>, <<1, 5>>, <<1, 2>> >>
QuakeCenter == <<0, 1002>>

WeatherProps(event, severity, urgency) ==
    [event |-> event, prod_type |-> MISSING, phenomena |-> MISSING,
     severity |-> severity, urgency |-> urgency]

WeatherFeatureSet ==
    { [geometry |-> Polygon(TriangleRing),
       properties |-> WeatherProps("Tornado Warning", "Extreme", "Immediate")],
      [geometry |-> Polygon(BowtieRing),
       properties |-> WeatherProps("Special Weather Statement", "Moderate", "Unknown")],
      [geometry |-> NoGeometry,
       properties |-> WeatherProps("Flood Warning", "Minor", "Expected")],
      [geometry |-> [type |-> "Polygon", coordinates |-> <<>>],
       properties |-> WeatherProps("Winter Storm Warning", "Severe", "Expected")],
      [geometry |-> Polygon(<< <<0, 0>>, <<8, 0>> >>),
       properties |-> WeatherProps("Flood Warning", "Severe", "Unknown")] }

OutageProps(name, state, pct, total) ==
    [NAME |-> name, State |-> state, Percent_Out |-> pct, Total_Out |-> total]

CountyOutage == [geometry |-> Polygon(CountyRing), properties |-> OutageProps("County X", "AR", 70, 1200)]
OutageNoShape == [geometry |-> NoGeometry, properties |-> OutageProps("County Y", "AR", 12, 300)]

OutageInputs == { <<>>, <<OutageNoShape, CountyOutage>> }

QuakeFeature ==
    [geometry |-> [type |-> "Point", coordinates |-> <<QuakeCenter[1], QuakeCenter[2], 10>>],
     properties |-> [mag |-> 4, place |-> "5km N of Town", time |-> 1700000]]

EarthquakeInputs == { <<>>, <<QuakeFeature>> }

Row(ip, x, y) == [ip |-> ip, lat |-> y, lon |-> x]

RowSet ==
    { Row("10.0.0.1", 2, 3), Row("10.0.0.2", 5, 4), Row("10.0.0.3", 4, -1),
      Row("10.0.0.4", 0, 2), Row("10.0.0.5", 900, 100), Row("10.0.0.6", 21, 2),
      Row("10.0.0.7", NoCoord, NoCoord) }

MinRanks == {0, 3}

\* What the remote point query can answer: a failure (exception, timeout,
\* non-200 status) or a feature list.
PointResponses ==
    { [ok |-> FALSE, features |-> <<>>],
      [ok |-> FALSE, features |-> << WeatherProps("Tornado Warning", "Extreme", "Immediate") >>],
      [ok |-> TRUE, features |-> <<>>],
      [ok |-> TRUE, features |-> << WeatherProps("Winter Storm Warning", "Moderate", "Unknown") >>] }

SeqsUpTo(S, n) == UNION { [1..k -> S] : k \in 0..n }

(***************************************************************************)
(* State.                                                                  *)
(***************************************************************************)
VARIABLES
    \* run_impact_analysis: arguments
    df_ips, weather_features, outage_features, earthquake_features,
    enable_point_fallback, min_severity_rank, exclude_low_priority,
    \* run_impact_analysis: locals
    pc, geom_stats, filter_stats, weather_polys, outage_polys, earthquake_polys,
    use_point_fallback, index, hazards, is_at_risk, check_method, results,
    \* what the run did to its collaborators: the rows whose point was looked
    \* up in a spatial index, the remote point queries issued (the row,
    \* whether the service answered and what check_point_alerts_nws returned)
    \* and the number of pacing delays slept
    tree_queries, api_calls, delays,
    \* fetch_power_outages: the two responses, the locals, the position
    hifld_response, odin_response, all_features, seen_counties, mpc,
    \* the Run Spatial Analysis handler: what the wildfire service holds, the
    \* answers of the weather and earthquake services, the weather task
    \* (fetch_weather_data_hybrid) and the earthquake task (fetch_earthquakes)
    \* with their positions, and the handler's position
    wildfire_source, iem_response, nws_response, usgs_response,
    wpc, fetched_weather, sources_used, qpc, fetched_quakes, rpc,
    \* get_geolocation_bulk: the argument, the list without duplicates and
    \* empty strings, the loop variable, the records collected, and what the
    \* function did to its collaborators: the batch requests posted and the
    \* number of pacing delays slept; its position
    ip_list, unique_ips, chunk_start, coords, geo_requests, geo_delays, gpc,
    \* the page: st.session_state, the wall clock in seconds, what the last
    \* script run displayed, the UI event that script run handled, and the
    \* number of bulk source fetches (run_parallel_fetches) issued so far, and
    \* the call of run_impact_analysis whose return value analysis_results
    \* holds: its settings and the statistics and fallback flag it computed
    session_state, now, page, last_event, bulk_fetches, provenance

inputs ==
    << df_ips, weather_features, outage_features, earthquake_features,
       enable_point_fallback, min_severity_rank, exclude_low_priority >>
zones == << geom_stats, filter_stats, weather_polys, outage_polys, earthquake_polys >>
rowvars == << index, hazards, is_at_risk, check_method >>
effects == << tree_queries, api_calls, delays >>
avars == << inputs, pc, zones, use_point_fallback, rowvars, results, effects >>
mvars == << hifld_response, odin_response, all_features, seen_counties, mpc >>
rvars ==
    << wildfire_source, iem_response, nws_response, usgs_response,
       wpc, fetched_weather, sources_used, qpc, fetched_quakes, rpc >>
gvars == << ip_list, unique_ips, chunk_start, coords, geo_requests, geo_delays, gpc >>
svars == << session_state, now, page, last_event, bulk_fetches, provenance >>
xvars == << gvars, svars >>
vars == << avars, mvars, rvars, xvars >>

(***************************************************************************)
(* run_impact_analysis: the zone lists.                                    *)
(***************************************************************************)
\* poly = shape(geom); if not poly.is_valid: poly = make_valid(poly)
ParsedPolygon(geom) ==
    LET poly == Shape(geom)
    IN  IF IsValid(poly) THEN poly ELSE MakeValid(poly)

\* Mutant: the geometry is parsed first and the severity filter applied to
\* what parsed.
WeatherOutcomeParseFirst(feature, min_rank, exclude_low) ==
    LET geom == feature.geometry
    IN  IF GeomIsNone(geom) THEN "null_geometry"
        ELSE IF ~Truthy(geom.type) \/ Len(geom.coordinates) = 0 THEN "null_geometry"
        ELSE IF ShapeRaises(geom) THEN "parse_error"
        ELSE IF ~(IsValid(ParsedPolygon(geom)) /\ ~IsEmpty(ParsedPolygon(geom))) THEN "parse_error"
        ELSE IF ~passes_severity_threshold(feature.properties, min_rank, exclude_low)
             THEN "filtered_out"
        ELSE "valid"

\* What the weather loop does with one feature.
WeatherOutcome(feature, min_rank, exclude_low) ==
    LET geom == feature.geometry
    IN  IF GeomIsNone(geom) THEN "null_geometry"
        ELSE IF ~Truthy(geom.type) \/ Len(geom.coordinates) = 0 THEN "null_geometry"
        ELSE IF ~passes_severity_threshold(feature.properties, min_rank, exclude_low)
             THEN "filtered_out"
        ELSE IF ShapeRaises(geom) THEN "parse_error"
        ELSE LET poly == ParsedPolygon(geom)
             IN  IF IsValid(poly) /\ ~IsEmpty(poly) THEN "valid" ELSE "parse_error"

WeatherOutcomes(features, min_rank, exclude_low) ==
    [i \in DOMAIN features |-> WeatherOutcome(features[i], min_rank, exclude_low)]

WeatherZone(feature) ==
    [poly |-> ParsedPolygon(feature.geometry),
     desc |-> WeatherDesc(feature.properties),
     severity |-> Get(feature.properties, "severity", "Unknown"),
     raw_props |-> feature.properties]

\* weather_polys: the zones of the features whose outcome is "valid", in
\* feature order.
RECURSIVE BuildWeatherPolys(_, _)
BuildWeatherPolys(features, outcomes) ==
    IF features = <<>> THEN <<>>
    ELSE LET n == Len(features)
             front == BuildWeatherPolys(SubSeq(features, 1, n - 1), outcomes)
         IN  IF outcomes[n] = "valid" THEN Append(front, WeatherZone(features[n])) ELSE front

CountOutcome(outcomes, which) == Cardinality({ i \in DOMAIN outcomes : outcomes[i] \in which })

\* Mutant: a filtered-out feature is counted as a valid polygon.
BuildGeomStatsCountingFiltered(outcomes) ==
    [total_features |-> Len(outcomes),
     valid_polygons |-> CountOutcome(outcomes, {"valid", "filtered_out"}),
     null_geometry |-> CountOutcome(outcomes, {"null_geometry"}),
     parse_errors |-> CountOutcome(outcomes, {"parse_error"})]

BuildGeomStats(outcomes) ==
    [total_features |-> Len(outcomes),
     valid_polygons |-> CountOutcome(outcomes, {"valid"}),
     null_geometry |-> CountOutcome(outcomes, {"null_geometry"}),
     parse_errors |-> CountOutcome(outcomes, {"parse_error"})]

BuildFilterStats(outcomes) ==
    [total_alerts |-> CountOutcome(outcomes, {"filtered_out", "parse_error", "valid"}),
     passed_filter |-> CountOutcome(outcomes, {"parse_error", "valid"}),
     filtered_out |-> CountOutcome(outcomes, {"filtered_out"})]

\* An outage feature becomes a zone when its geometry is present, parses and
\* is valid (after repair) and not empty.
OutageUsable(feature) ==
    LET geom == feature.geometry
    IN  /\ ~GeomIsNone(geom)
        /\ Len(geom.coordinates) > 0
        /\ ~ShapeRaises(geom)
        /\ LET poly == ParsedPolygon(geom)
           IN  IsValid(poly) /\ ~IsEmpty(poly)

RECURSIVE BuildOutagePolys(_)
BuildOutagePolys(features) ==
    IF features = <<>> THEN <<>>
    ELSE IF OutageUsable(Head(features))
         THEN << [poly |-> ParsedPolygon(Head(features).geometry),
                  desc |-> OutageDesc(Head(features).properties)] >>
              \o BuildOutagePolys(Tail(features))
         ELSE BuildOutagePolys(Tail(features))

EarthquakeUsable(feature) ==
    LET geom == feature.geometry
    IN  /\ ~GeomIsNone(geom)
        /\ Len(geom.coordinates) > 0
        /\ ~ShapeRaises(geom)
        /\ feature.properties.time # NoneNum

\* The zone of a usable earthquake feature is quake_point.buffer(0.5); the
\* list keeps the point, and ImpactZone gives the polygon where it is used.
RECURSIVE BuildEarthquakePolys(_)
BuildEarthquakePolys(features) ==
    IF features = <<>> THEN <<>>
    ELSE IF EarthquakeUsable(Head(features))
         THEN << [quake_point |-> ShapePoint(Head(features).geometry),
                  desc |-> EarthquakeDesc(Head(features).properties)] >>
              \o BuildEarthquakePolys(Tail(features))
         ELSE BuildEarthquakePolys(Tail(features))

\* valid_polygons < total_features * 0.1 compares an integer with a double.
\* For every total below 2^31 the product total * 0.1 rounds to exactly
\* total / 10 when that is an integer and otherwise lies strictly between
\* the same two integers as total / 10, so the comparison decides as
\* 10 * valid_polygons < total_features does.
\* Mutant: the threshold taken as "at most 10%".
AtMostTenth(valid_polygons, total_features) == 10 * valid_polygons <= total_features

BelowTenth(valid_polygons, total_features) == 10 * valid_polygons < total_features

UsePointFallback(enable, stats) ==
    /\ enable
    /\ BelowTenth(stats.valid_polygons, stats.total_features)
    /\ stats.total_features > 0

(***************************************************************************)
(* run_impact_analysis: the spatial indices and the per-row checks.        *)
(***************************************************************************)
Resolved(row) == row.lat # NoCoord /\ row.lon # NoCoord

PointOf(row) == <<row.lon, row.lat>>

\* impact_zone = quake_point.buffer(0.5); the buffer of the empty point is
\* the empty polygon.
ImpactZone(zone) == IF IsEmpty(zone.quake_point) THEN <<>> ELSE Buffer(zone.quake_point)

\* STRtree.query(point): the indices of the geometries whose bounding box
\* holds the point (borders included).  An absent tree yields none.
InEnvelope(env, p) == env[1] <= p[1] /\ p[1] <= env[3] /\ env[2] <= p[2] /\ p[2] <= env[4]

Query(polys, p) == { i \in DOMAIN polys : InEnvelope(Envelope(polys[i].poly), p) }

QueryEarthquake(polys, p) ==
    { i \in DOMAIN polys :
        /\ ~IsEmpty(polys[i].quake_point)
        /\ InEnvelope(BufferEnvelope(polys[i].quake_point), p) }

\* Method 1: alert['poly'].contains(point) or alert['poly'].intersects(point_buffer)
WeatherHit(zone, p) ==
    Contains(zone.poly, p) \/ IntersectsBuffer(zone.poly, p, PointBufferRadius)

\* Method 2: outage['poly'].contains(point)
OutageHit(zone, p) == Contains(zone.poly, p)

\* Mutant: the point built as Point(lat, lon).
EarthquakeHitSwapped(zone, p) == Contains(ImpactZone(zone), <<p[2], p[1]>>)

\* Mutant: every candidate of the index taken as a match.
EarthquakeHitNoTest(zone, p) == TRUE

\* Method 3: quake['poly'].contains(point)
EarthquakeHit(zone, p) == Contains(ImpactZone(zone), p)

WeatherMatches(polys, p) == { i \in Query(polys, p) : WeatherHit(polys[i], p) }
OutageMatches(polys, p) == { i \in Query(polys, p) : OutageHit(polys[i], p) }
EarthquakeMatches(polys, p) == { i \in QueryEarthquake(polys, p) : EarthquakeHit(polys[i], p) }

\* The descriptions of the matched zones, in index order.
RECURSIVE DescsOf(_, _)
DescsOf(polys, matches) ==
    IF polys = <<>> THEN <<>>
    ELSE LET front == DescsOf(SubSeq(polys, 1, Len(polys) - 1), matches)
         IN  IF Len(polys) \in matches THEN Append(front, polys[Len(polys)].desc) ELSE front

\* Mutant: the checks stop at the first category that matched.
PolygonHazardsEarlyExit(wpolys, opolys, epolys, p) ==
    IF WeatherMatches(wpolys, p) # {} THEN DescsOf(wpolys, WeatherMatches(wpolys, p))
    ELSE IF OutageMatches(opolys, p) # {} THEN DescsOf(opolys, OutageMatches(opolys, p))
    ELSE DescsOf(epolys, EarthquakeMatches(epolys, p))

PolygonHazards(wpolys, opolys, epolys, p) ==
    DescsOf(wpolys, WeatherMatches(wpolys, p))
        \o DescsOf(opolys, OutageMatches(opolys, p))
        \o DescsOf(epolys, EarthquakeMatches(epolys, p))

\* check_point_alerts_nws: the formatted alerts of a 200 response that pass
\* the severity filter; [] on any failure.
RECURSIVE FormatAlerts(_, _, _)
FormatAlerts(features, min_rank, exclude_low) ==
    IF features = <<>> THEN <<>>
    ELSE LET props == Head(features)
             rest == FormatAlerts(Tail(features), min_rank, exclude_low)
         IN  IF passes_severity_threshold(props, min_rank, exclude_low)
             THEN << AlertText(Get(props, "event", "Weather Alert"),
                               Get(props, "severity", "Unknown"),
                               Get(props, "urgency", "")) >> \o rest
             ELSE rest

\* Mutant: the body is read whatever the status of the response.
check_point_alerts_nws_any_status(response, min_rank, exclude_low) ==
    FormatAlerts(response.features, min_rank, exclude_low)

check_point_alerts_nws(response, min_rank, exclude_low) ==
    IF response.ok THEN FormatAlerts(response.features, min_rank, exclude_low) ELSE <<>>

\* Mutant: a row without coordinates gets a remote query too.
NeedsFallbackWithoutCoordinates(row, fallback, at_risk) == fallback /\ ~at_risk

\* Mutant: the remote query is issued whether or not a polygon matched.
NeedsFallbackIgnoringRisk(row, fallback, at_risk) == Resolved(row) /\ fallback

\* Line 621 (inside the block of line 580): the row gets a remote query.
NeedsFallback(row, fallback, at_risk) == Resolved(row) /\ fallback /\ ~at_risk

\* Mutant: the descriptions joined as they were appended.
RiskDetailsAsAppended(hz) == IF hz # <<>> THEN Join(hz, " | ") ELSE "None"

\* " | ".join(sorted(set(hazards))) if hazards else "None"
RiskDetails(hz) ==
    IF hz # <<>> THEN Join(Sorted({ hz[i] : i \in DOMAIN hz }), " | ") ELSE "None"

ResultRecord(row, at_risk, hz, method) ==
    [ip |-> row.ip, lat |-> row.lat, lon |-> row.lon, is_at_risk |-> at_risk,
     risk_details |-> RiskDetails(hz), check_method |-> method]

\* Lines 1188-1190: the Status column of the results table.
DisplayStatus(record) == IF record.is_at_risk THEN "AT RISK" ELSE "Clear"

(***************************************************************************)
(* run_impact_analysis as a state machine.                                 *)
(***************************************************************************)
EmptyGeomStats == [total_features |-> 0, valid_polygons |-> 0, null_geometry |-> 0, parse_errors |-> 0]
EmptyFilterStats == [total_alerts |-> 0, passed_filter |-> 0, filtered_out |-> 0]

AnalysisLocalsInit ==
    /\ geom_stats = EmptyGeomStats
    /\ filter_stats = EmptyFilterStats
    /\ weather_polys = <<>>
    /\ outage_polys = <<>>
    /\ earthquake_polys = <<>>
    /\ use_point_fallback = FALSE
    /\ index = 1
    /\ hazards = <<>>
    /\ is_at_risk = FALSE
    /\ check_method = "polygon"
    /\ results = <<>>
    /\ tree_queries = {}
    /\ api_calls = <<>>
    /\ delays = 0

GeoIdle ==
    /\ ip_list = <<>>
    /\ unique_ips = <<>>
    /\ chunk_start = 0
    /\ coords = <<>>
    /\ geo_requests = <<>>
    /\ geo_delays = 0
    /\ gpc = "idle"

\* A value that may be None.
Nothing == [some |-> FALSE, val |-> <<>>]
Some(v) == [some |-> TRUE, val |-> v]

\* Lines 772-799: the session state of a new session ({} is Nothing here).
NewSession ==
    [analysis_results |-> Nothing, weather_data |-> Nothing, outage_data |-> Nothing,
     earthquake_data |-> Nothing, geom_stats |-> Nothing, using_point_fallback |-> FALSE,
     filter_stats |-> Nothing, geo_data |-> Nothing, enable_fallback |-> TRUE,
     min_severity_rank |-> 2, exclude_low_priority |-> TRUE, fetch_timestamp |-> NoneNum]

BlankPage ==
    [shown |-> FALSE, total_clients |-> 0, at_risk |-> 0, age_str |-> "", icon |-> "",
     is_stale |-> FALSE, stale_warning |-> FALSE]

SessionIdle ==
    /\ session_state = NewSession
    /\ now = 0
    /\ page = BlankPage
    /\ last_event = "none"
    /\ bulk_fetches = 0
    /\ provenance = Nothing

ExtraIdle == GeoIdle /\ SessionIdle

RunIdle ==
    /\ ExtraIdle
    /\ wildfire_source = <<>>
    /\ iem_response = [ok |-> FALSE, features |-> <<>>]
    /\ nws_response = [ok |-> FALSE, features |-> <<>>]
    /\ usgs_response = [ok |-> FALSE, features |-> <<>>]
    /\ wpc = "idle"
    /\ fetched_weather = <<>>
    /\ sources_used = <<>>
    /\ qpc = "idle"
    /\ fetched_quakes = <<>>
    /\ rpc = "idle"

MergeIdle ==
    /\ hifld_response = [ok |-> FALSE, features |-> <<>>]
    /\ odin_response = [ok |-> FALSE, features |-> <<>>]
    /\ all_features = <<>>
    /\ seen_counties = {}
    /\ mpc = "idle"

InitAnalysis ==
    /\ df_ips \in SeqsUpTo(RowSet, MaxPoints)
    /\ weather_features \in SeqsUpTo(WeatherFeatureSet, MaxWeather)
    /\ outage_features \in OutageInputs
    /\ earthquake_features \in EarthquakeInputs
    /\ enable_point_fallback \in BOOLEAN
    /\ min_severity_rank \in MinRanks
    /\ exclude_low_priority \in BOOLEAN
    /\ pc = "build"
    /\ AnalysisLocalsInit
    /\ MergeIdle
    /\ RunIdle

\* geom.get(...) at lines 466, 520 and 538 stands outside the try blocks: a
\* feature whose geometry is an array makes the loop, and the function,
\* raise AttributeError.
LoopRaises(features) == \E i \in DOMAIN features : GeomIsArray(features[i].geometry)

\* Lines 443-554: the weather polygon list with its statistics, the outage
\* polygon list and the earthquake zone list; the run ends here when a loop
\* raises.
BuildZones ==
    /\ pc = "build"
    /\ IF LoopRaises(weather_features) \/ LoopRaises(outage_features)
            \/ LoopRaises(earthquake_features)
       THEN /\ pc' = "raised"
            /\ UNCHANGED zones
       ELSE /\ LET outcomes ==
                      WeatherOutcomes(weather_features, min_severity_rank, exclude_low_priority)
               IN  /\ weather_polys' = BuildWeatherPolys(weather_features, outcomes)
                   /\ geom_stats' = BuildGeomStats(outcomes)
                   /\ filter_stats' = BuildFilterStats(outcomes)
            /\ outage_polys' = BuildOutagePolys(outage_features)
            /\ earthquake_polys' = BuildEarthquakePolys(earthquake_features)
            /\ pc' = "decide"
    /\ UNCHANGED << xvars, inputs, use_point_fallback, rowvars, results, effects, mvars, rvars >>

\* Lines 556-572: the fallback decision (the indices are built from the
\* zone lists and hold no further state).
DetermineFallback ==
    /\ pc = "decide"
    /\ use_point_fallback' = UsePointFallback(enable_point_fallback, geom_stats)
    /\ pc' = "row"
    /\ UNCHANGED << xvars, inputs, zones, rowvars, results, effects, mvars, rvars >>

\* Lines 575-618: the next row; its polygon checks when it has coordinates.
CheckRow ==
    /\ pc = "row"
    /\ index <= Len(df_ips)
    /\ LET row == df_ips[index]
           hz == IF Resolved(row)
                 THEN PolygonHazards(weather_polys, outage_polys, earthquake_polys, PointOf(row))
                 ELSE <<>>
       IN  /\ hazards' = hz
           /\ is_at_risk' = (hz # <<>>)
           /\ check_method' = "polygon"
           /\ tree_queries' =
                 IF Resolved(row) /\ (weather_polys # <<>> \/ outage_polys # <<>> \/ earthquake_polys # <<>>)
                 THEN tree_queries \cup {index}
                 ELSE tree_queries
           /\ pc' = IF NeedsFallback(row, use_point_fallback, hz # <<>>) THEN "fallback" ELSE "append"
    /\ UNCHANGED << xvars, inputs, zones, use_point_fallback, index, results, api_calls, delays, mvars, rvars >>

\* Mutant: the row is flagged whenever the remote query answered, also when
\* no alert passed the filter.
PointFallbackFlagsOnAnswer ==
    /\ pc = "fallback"
    /\ \E response \in PointResponses :
          LET point_alerts == check_point_alerts_nws(response, min_severity_rank, exclude_low_priority)
          IN  /\ is_at_risk' = IF response.ok THEN TRUE ELSE is_at_risk
              /\ hazards' = hazards \o point_alerts
              /\ check_method' = IF response.ok THEN "point-api" ELSE check_method
              /\ api_calls' = Append(api_calls, [row |-> index, ok |-> response.ok, alerts |-> point_alerts])
    /\ pc' = "sleep"
    /\ UNCHANGED << xvars, inputs, zones, use_point_fallback, index, results, tree_queries, delays, mvars, rvars >>

\* Lines 620-630: the remote point query of a row no polygon flagged.
PointFallback ==
    /\ pc = "fallback"
    /\ \E response \in PointResponses :
          LET point_alerts == check_point_alerts_nws(response, min_severity_rank, exclude_low_priority)
          IN  /\ is_at_risk' = IF point_alerts # <<>> THEN TRUE ELSE is_at_risk
              /\ hazards' = hazards \o point_alerts
              /\ check_method' = IF point_alerts # <<>> THEN "point-api" ELSE check_method
              /\ api_calls' = Append(api_calls, [row |-> index, ok |-> response.ok, alerts |-> point_alerts])
    /\ pc' = "sleep"
    /\ UNCHANGED << xvars, inputs, zones, use_point_fallback, index, results, tree_queries, delays, mvars, rvars >>

\* Mutant: the delay is slept only after a query that returned alerts.
SleepAfterAlertsOnly ==
    /\ pc = "sleep"
    /\ delays' = IF api_calls[Len(api_calls)].alerts # <<>> THEN delays + 1 ELSE delays
    /\ pc' = "append"
    /\ UNCHANGED << xvars, inputs, zones, use_point_fallback, rowvars, results, tree_queries, api_calls,
                    mvars, rvars >>

\* Line 631: time.sleep(0.2)
Sleep ==
    /\ pc = "sleep"
    /\ delays' = delays + 1
    /\ pc' = "append"
    /\ UNCHANGED << xvars, inputs, zones, use_point_fallback, rowvars, results, tree_queries, api_calls,
                    mvars, rvars >>

\* Mutant: a row without coordinates gets no record.
AppendResultResolvedOnly ==
    /\ pc = "append"
    /\ results' = IF Resolved(df_ips[index])
                  THEN Append(results, ResultRecord(df_ips[index], is_at_risk, hazards, check_method))
                  ELSE results
    /\ index' = index + 1
    /\ pc' = "row"
    /\ UNCHANGED << xvars, inputs, zones, use_point_fallback, hazards, is_at_risk, check_method,
                    effects, mvars, rvars >>

\* Lines 633-642: the row's record.
AppendResult ==
    /\ pc = "append"
    /\ results' = Append(results, ResultRecord(df_ips[index], is_at_risk, hazards, check_method))
    /\ index' = index + 1
    /\ pc' = "row"
    /\ UNCHANGED << xvars, inputs, zones, use_point_fallback, hazards, is_at_risk, check_method,
                    effects, mvars, rvars >>

\* Line 644: return pd.DataFrame(results)
Return ==
    /\ pc = "row"
    /\ index > Len(df_ips)
    /\ pc' = "done"
    /\ UNCHANGED << xvars, inputs, zones, use_point_fallback, rowvars, results, effects, mvars, rvars >>

NextAnalysis ==
    \/ BuildZones
    \/ DetermineFallback
    \/ CheckRow
    \/ PointFallback
    \/ Sleep
    \/ AppendResult
    \/ Return

SpecAnalysis == InitAnalysis /\ [][NextAnalysis]_vars

(***************************************************************************)
(* The fallback decision on its own: DetermineFallback applied to every    *)
(* geometry statistic up to MaxTotal features.                             *)
(***************************************************************************)
InitCoverage ==
    /\ df_ips = <<>>
    /\ weather_features = <<>>
    /\ outage_features = <<>>
    /\ earthquake_features = <<>>
    /\ enable_point_fallback \in BOOLEAN
    /\ min_severity_rank = 0
    /\ exclude_low_priority = FALSE
    /\ pc = "decide"
    /\ \E total \in 0..MaxTotal : \E valid \in 0..total :
          geom_stats = [total_features |-> total, valid_polygons |-> valid,
                        null_geometry |-> total - valid, parse_errors |-> 0]
    /\ filter_stats = EmptyFilterStats
    /\ weather_polys = <<>>
    /\ outage_polys = <<>>
    /\ earthquake_polys = <<>>
    /\ use_point_fallback = FALSE
    /\ index = 1
    /\ hazards = <<>>
    /\ is_at_risk = FALSE
    /\ check_method = "polygon"
    /\ results = <<>>
    /\ tree_queries = {}
    /\ api_calls = <<>>
    /\ delays = 0
    /\ MergeIdle
    /\ RunIdle

NextCoverage == DetermineFallback

SpecCoverage == InitCoverage /\ [][NextCoverage]_vars

(***************************************************************************)
(* fetch_power_outages: the merge of the HIFLD and ODIN county feeds.      *)
(* A feature's properties carry the keys of both feeds; a key the feed     *)
(* does not deliver is absent (MISSING, MissingNum).                       *)
(***************************************************************************)
HifldFeature(name, state_code, pct, total) ==
    [properties |-> [NAME |-> name, State |-> state_code, Percent_Out |-> pct, Total_Out |-> total,
                     county |-> MISSING, state |-> MISSING,
                     percent_out |-> MissingNum, customers_out |-> MissingNum]]

OdinFeature(name, state_code, pct, total) ==
    [properties |-> [NAME |-> MISSING, State |-> MISSING,
                     Percent_Out |-> MissingNum, Total_Out |-> MissingNum,
                     county |-> name, state |-> state_code,
                     percent_out |-> pct, customers_out |-> total]]

\* The counties the feeds report: <<name, state, percent out, customers out>>.
\* A null percent or count is NoneNum.
CountyReports ==
    { <<"Alpha", "AR", 40, 100>>, <<"Alpha", "AR", 65, 200>>,
      <<"Alpha", "AR", NoneNum, NoneNum>>, <<"Alpha", "TX", 40, 100>>,
      <<"Beta", "AR", 65, 100>>, <<"Beta", "AR", 40, 200>> }

HifldFeatureSet == { HifldFeature(c[1], c[2], c[3], c[4]) : c \in CountyReports }
OdinFeatureSet == { OdinFeature(c[1], c[2], c[3], c[4]) : c \in CountyReports }

\* What a feed can answer: a failure (exception, timeout, non-200 status) or
\* a feature list.
FailedResponse == [ok |-> FALSE, features |-> <<>>]
HifldResponses ==
    {FailedResponse} \cup { [ok |-> TRUE, features |-> f] : f \in SeqsUpTo(HifldFeatureSet, MaxHifld) }
OdinResponses ==
    {FailedResponse} \cup { [ok |-> TRUE, features |-> f] : f \in SeqsUpTo(OdinFeatureSet, MaxOdin) }

county_key(name, state_code) == Str(name) \o "_" \o Str(state_code)
HifldKey(props) == county_key(Get(props, "NAME", ""), Get(props, "State", ""))
OdinKey(props) == county_key(Get(props, "county", ""), Get(props, "state", ""))

EmptyMerge == [all_features |-> <<>>, seen_counties |-> {}]

\* Lines 234-238: one HIFLD feature.
HifldStep(acc, feat) ==
    LET key == HifldKey(feat.properties)
    IN  IF key \notin acc.seen_counties
          THEN [all_features |-> Append(acc.all_features, feat),
                seen_counties |-> acc.seen_counties \cup {key}]
          ELSE acc

RECURSIVE HifldLoop(_, _)
HifldLoop(features, acc) ==
    IF features = <<>> THEN acc
    ELSE HifldLoop(Tail(features), HifldStep(acc, Head(features)))

\* Lines 229-240.
MergeHifld(response, acc) ==
    IF response.ok THEN HifldLoop(response.features, acc) ELSE acc

\* Lines 271-274: the ODIN properties under the HIFLD names.
Normalize(props) ==
    [props EXCEPT !.NAME = Get(props, "county", NONE),
                  !.State = Get(props, "state", NONE),
                  !.Percent_Out = GetNum(props, "percent_out", NoneNum),
                  !.Total_Out = GetNum(props, "customers_out", NoneNum)]

\* Lines 259-268: the first record already held under the key takes the new
\* percent and count when the new percent is larger.
KeepHigher(all, key, props) ==
    LET held == { i \in DOMAIN all : HifldKey(all[i].properties) = key }
    IN  IF held = {} THEN all
        ELSE LET i == MinOf(held)
                 ex_props == all[i].properties
                 existing_pct == OrZero(GetNum(ex_props, "Percent_Out", 0))
                 new_pct == OrZero(GetNum(props, "percent_out", 0))
             IN  IF new_pct > existing_pct
                   THEN [all EXCEPT ![i].properties =
                           [ex_props EXCEPT
                              !.Percent_Out = new_pct,
                              !.Total_Out = GetNum(props, "customers_out",
                                                   GetNum(ex_props, "Total_Out", NoneNum))]]
                   ELSE all

OdinStepAlwaysAppend(acc, feat) ==
    [all_features |-> Append(acc.all_features, [feat EXCEPT !.properties = Normalize(feat.properties)]),
     seen_counties |-> acc.seen_counties \cup {OdinKey(feat.properties)}]

\* Lines 253-276: one ODIN feature.
OdinStep(acc, feat) ==
    LET props == feat.properties
        key == OdinKey(props)
    IN  IF key \in acc.seen_counties
          THEN [acc EXCEPT !.all_features = KeepHigher(acc.all_features, key, props)]
          ELSE [all_features |-> Append(acc.all_features, [feat EXCEPT !.properties = Normalize(props)]),
                seen_counties |-> acc.seen_counties \cup {key}]

RECURSIVE OdinLoop(_, _)
OdinLoop(features, acc) ==
    IF features = <<>> THEN acc
    ELSE OdinLoop(Tail(features), OdinStep(acc, Head(features)))

MergeOdinAsFallback(response, acc) ==
    IF response.ok /\ acc.all_features = <<>> THEN OdinLoop(response.features, acc) ELSE acc

\* Lines 248-278.
MergeOdin(response, acc) ==
    IF response.ok THEN OdinLoop(response.features, acc) ELSE acc

AnalysisIdle ==
    /\ df_ips = <<>>
    /\ weather_features = <<>>
    /\ outage_features = <<>>
    /\ earthquake_features = <<>>
    /\ enable_point_fallback = FALSE
    /\ min_severity_rank = 0
    /\ exclude_low_priority = FALSE
    /\ pc = "idle"
    /\ AnalysisLocalsInit

InitMerge ==
    /\ AnalysisIdle
    /\ RunIdle
    /\ hifld_response = FailedResponse
    /\ odin_response = FailedResponse
    /\ all_features = <<>>
    /\ seen_counties = {}
    /\ mpc = "hifld"

\* Lines 222-240: the HIFLD request and its loop.
FetchHifldFrom(responses) ==
    /\ mpc = "hifld"
    /\ \E r \in responses :
          LET acc == MergeHifld(r, [all_features |-> all_features, seen_counties |-> seen_counties])
          IN  /\ hifld_response' = r
              /\ all_features' = acc.all_features
              /\ seen_counties' = acc.seen_counties
    /\ mpc' = "odin"
    /\ UNCHANGED << xvars, avars, odin_response, rvars >>

\* Lines 242-278: the ODIN request and its loop.
FetchOdinFrom(responses) ==
    /\ mpc = "odin"
    /\ \E r \in responses :
          LET acc == MergeOdin(r, [all_features |-> all_features, seen_counties |-> seen_counties])
          IN  /\ odin_response' = r
              /\ all_features' = acc.all_features
              /\ seen_counties' = acc.seen_counties
    /\ mpc' = "returned"
    /\ UNCHANGED << xvars, avars, hifld_response, rvars >>

FetchHifld == FetchHifldFrom(HifldResponses)
FetchOdin == FetchOdinFrom(OdinResponses)

NextMerge ==
    \/ FetchHifld
    \/ FetchOdin

SpecMerge == InitMerge /\ [][NextMerge]_vars

(***************************************************************************)
(* The severity filter on its own: the weather loop applied to one feature *)
(* with a usable polygon, for every severity label, event, threshold and   *)
(* exclusion flag.                                                         *)
(***************************************************************************)
SeverityLabels ==
    { "Extreme", "Severe", "Moderate", "Minor", "Unknown", "minor", "Catastrophic", "", NONE, MISSING }

EventNames ==
    { "Tornado Warning", "Special Weather Statement", "Hazardous Weather Outlook",
      "special weather statement", NONE, MISSING }

ThresholdRanks == 0..4

InitSeverity ==
    /\ df_ips = <<>>
    /\ \E severity \in SeverityLabels, event \in EventNames :
          weather_features =
              << [geometry |-> Polygon(TriangleRing),
                  properties |-> WeatherProps(event, severity, "Immediate")] >>
    /\ outage_features = <<>>
    /\ earthquake_features = <<>>
    /\ enable_point_fallback = FALSE
    /\ min_severity_rank \in ThresholdRanks
    /\ exclude_low_priority \in BOOLEAN
    /\ pc = "build"
    /\ AnalysisLocalsInit
    /\ MergeIdle
    /\ RunIdle

NextSeverity == BuildZones

SpecSeverity == InitSeverity /\ [][NextSeverity]_vars

(***************************************************************************)
(* The zone lists on their own: lines 443-554 applied to features of every *)
(* geometry kind, usable and malformed, under every filter setting.        *)
(***************************************************************************)
MaxZoneWeather == 2

TypelessGeometry == [type |-> MISSING, coordinates |-> <<TriangleRing>>]
EmptyCoordinates == [type |-> "Polygon", coordinates |-> <<>>]
EmptyRing == Polygon(<<>>)
ShortRing == Polygon(<< <<0, 0>>, <<8, 0>> >>)
ArrayGeometry == [type |-> ARRAY, coordinates |-> <<CountyRing>>]

ZoneGeometries ==
    { Polygon(TriangleRing), Polygon(BowtieRing), NoGeometry, TypelessGeometry,
      EmptyCoordinates, EmptyRing, ShortRing }

ZoneWeatherFeatureSet ==
    { [geometry |-> g, properties |-> props] :
        g \in ZoneGeometries,
        props \in { WeatherProps("Tornado Warning", "Extreme", "Immediate"),
                    WeatherProps("Special Weather Statement", "Minor", "Expected") } }

ZoneOutage(g, name) == [geometry |-> g, properties |-> OutageProps(name, "AR", 70, 1200)]

ZoneOutageInputs ==
    { <<>>,
      << ZoneOutage(Polygon(CountyRing), "County X") >>,
      << ZoneOutage(Polygon(BowtieRing), "County B"), ZoneOutage(EmptyRing, "County E") >>,
      << ZoneOutage(NoGeometry, "County N"), ZoneOutage(TypelessGeometry, "County T"),
         ZoneOutage(EmptyCoordinates, "County C"), ZoneOutage(ShortRing, "County S"),
         ZoneOutage(Polygon(CountyRing), "County X") >>,
      << ZoneOutage(Polygon(CountyRing), "County X"), ZoneOutage(ArrayGeometry, "County A") >> }

ZoneQuake(g, time) ==
    [geometry |-> g, properties |-> [mag |-> 4, place |-> "5km N of Town", time |-> time]]

ZoneEarthquakeInputs ==
    { <<>>,
      << QuakeFeature >>,
      << ZoneQuake(NoGeometry, 1700000),
         ZoneQuake([type |-> "Point", coordinates |-> <<>>], 1700000),
         ZoneQuake([type |-> "Point", coordinates |-> <<7>>], 1700000),
         ZoneQuake(QuakeFeature.geometry, NoneNum),
         QuakeFeature >>,
      << ZoneQuake([type |-> "Point", coordinates |-> <<NoCoord, NoCoord>>], 1700000),
         ZoneQuake([type |-> "Point", coordinates |-> <<7, NoCoord>>], 1700000),
         QuakeFeature >> }

InitZones ==
    /\ df_ips = <<>>
    /\ weather_features \in SeqsUpTo(ZoneWeatherFeatureSet, MaxZoneWeather)
    /\ outage_features \in ZoneOutageInputs
    /\ earthquake_features \in ZoneEarthquakeInputs
    /\ enable_point_fallback = FALSE
    /\ min_severity_rank \in MinRanks
    /\ exclude_low_priority \in BOOLEAN
    /\ pc = "build"
    /\ AnalysisLocalsInit
    /\ MergeIdle
    /\ RunIdle

NextZones == BuildZones

SpecZones == InitZones /\ [][NextZones]_vars

(***************************************************************************)
(* Overlapping zones in every ingestion order: run_impact_analysis on      *)
(* weather features that overlap, two of them with the same description,   *)
(* and on two overlapping outage counties, the point fallback disabled.    *)
(***************************************************************************)
MaxOrderWeather == 2

SquareRing == << <<0, 0>>, <<6, 0>>, <<6, 6>>, <<0, 6>>, <<0, 0>> >>
ShiftedSquareRing == << <<1, 1>>, <<7, 1>>, <<7, 7>>, <<1, 7>>, <<1, 1>> >>
RegionRing == << <<0, 0>>, <<9, 0>>, <<9, 9>>, <<0, 9>>, <<0, 0>> >>

TornadoTriangle ==
    [geometry |-> Polygon(TriangleRing),
     properties |-> WeatherProps("Tornado Warning", "Extreme", "Immediate")]
FloodSquare ==
    [geometry |-> Polygon(SquareRing),
     properties |-> WeatherProps("Flood Warning", "Severe", "Unknown")]
TornadoSquare ==
    [geometry |-> Polygon(ShiftedSquareRing),
     properties |-> WeatherProps("Tornado Warning", "Extreme", "Immediate")]

OrderWeatherFeatureSet == { TornadoTriangle, FloodSquare, TornadoSquare }

RegionOutage ==
    [geometry |-> Polygon(RegionRing), properties |-> OutageProps("County Z", "AR", 12, 300)]

OrderOutageInputs == { <<>>, << CountyOutage, RegionOutage >>, << RegionOutage, CountyOutage >> }

OrderRowSet == { Row("10.0.0.1", 2, 3), Row("10.0.0.5", 900, 100) }

InitOrder ==
    /\ df_ips \in { <<row>> : row \in OrderRowSet }
    /\ weather_features \in SeqsUpTo(OrderWeatherFeatureSet, MaxOrderWeather)
    /\ outage_features \in OrderOutageInputs
    /\ earthquake_features \in EarthquakeInputs
    /\ enable_point_fallback = FALSE
    /\ min_severity_rank = 0
    /\ exclude_low_priority = FALSE
    /\ pc = "build"
    /\ AnalysisLocalsInit
    /\ MergeIdle
    /\ RunIdle

NextOrder ==
    \/ BuildZones
    \/ DetermineFallback
    \/ CheckRow
    \/ AppendResult
    \/ Return

SpecOrder == InitOrder /\ [][NextOrder]_vars

(***************************************************************************)
(* The Run Spatial Analysis handler (lines 939-995): geolocation, the      *)
(* three fetch tasks of run_parallel_fetches running concurrently, then    *)
(* run_impact_analysis on what they returned.  fetch_wildfires (lines      *)
(* 297-316) is defined but the handler never submits it.                   *)
(***************************************************************************)
WildfirePerimeter ==
    [geometry |-> Polygon(RegionRing),
     properties |-> [poly_IncidentName |-> "Pine Fire", poly_Acres |-> 900]]

\* What the wildfire service holds: the perimeters fetch_wildfires would return.
WildfireSources == { <<>>, << WildfirePerimeter >> }

ZoneBasedAlert ==
    [geometry |-> NoGeometry, properties |-> WeatherProps("Flood Warning", "Severe", "Expected")]

IemResponses ==
    { FailedResponse,
      [ok |-> TRUE, features |-> <<>>],
      [ok |-> TRUE, features |-> << TornadoTriangle >>],
      [ok |-> TRUE, features |-> << ZoneBasedAlert >>] }

NwsResponses ==
    { FailedResponse,
      [ok |-> TRUE, features |-> << ZoneBasedAlert >>],
      [ok |-> TRUE, features |-> << FloodSquare >>] }

WithGeometry(feat, geom) == [geometry |-> geom, properties |-> feat.properties]

RunHifldResponses ==
    { FailedResponse,
      [ok |-> TRUE,
       features |-> << WithGeometry(HifldFeature("Alpha", "AR", 40, 100), Polygon(CountyRing)) >>] }

RunOdinResponses ==
    { FailedResponse,
      [ok |-> TRUE,
       features |-> << WithGeometry(OdinFeature("Alpha", "AR", 65, 200), Polygon(CountyRing)) >>],
      [ok |-> TRUE,
       features |-> << WithGeometry(OdinFeature("Beta", "AR", 65, 100), Polygon(RegionRing)) >>] }

UsgsResponses ==
    { FailedResponse,
      [ok |-> TRUE, features |-> <<>>],
      [ok |-> TRUE, features |-> << QuakeFeature >>] }

RunRowSet == { Row("10.0.0.1", 2, 3), Row("10.0.0.5", 900, 100) }

InitRun ==
    /\ df_ips = <<>>
    /\ weather_features = <<>>
    /\ outage_features = <<>>
    /\ earthquake_features = <<>>
    /\ enable_point_fallback \in BOOLEAN
    /\ min_severity_rank \in MinRanks
    /\ exclude_low_priority = FALSE
    /\ pc = "idle"
    /\ AnalysisLocalsInit
    /\ hifld_response = FailedResponse
    /\ odin_response = FailedResponse
    /\ all_features = <<>>
    /\ seen_counties = {}
    /\ mpc = "idle"
    /\ wildfire_source \in WildfireSources
    /\ iem_response = FailedResponse
    /\ nws_response = FailedResponse
    /\ usgs_response = FailedResponse
    /\ wpc = "idle"
    /\ fetched_weather = <<>>
    /\ sources_used = <<>>
    /\ qpc = "idle"
    /\ fetched_quakes = <<>>
    /\ rpc = "geolocate"
    /\ ExtraIdle

\* Lines 940-946: a non-empty IP list is geolocated.
Geolocate ==
    /\ rpc = "geolocate"
    /\ df_ips' \in SeqsUpTo(RunRowSet, MaxPoints) \ { <<>> }
    /\ rpc' = "submit"
    /\ UNCHANGED << xvars, weather_features, outage_features, earthquake_features,
                    enable_point_fallback, min_severity_rank, exclude_low_priority,
                    pc, zones, use_point_fallback, rowvars, results, effects, mvars,
                    wildfire_source, iem_response, nws_response, usgs_response,
                    wpc, fetched_weather, sources_used, qpc, fetched_quakes >>

\* Lines 950-954: the three tasks are submitted to the thread pool.
Submit ==
    /\ rpc = "submit"
    /\ wpc' = "iem"
    /\ mpc' = "hifld"
    /\ qpc' = "usgs"
    /\ rpc' = "wait"
    /\ UNCHANGED << xvars, avars, hifld_response, odin_response, all_features, seen_counties,
                    wildfire_source, iem_response, nws_response, usgs_response,
                    fetched_weather, sources_used, fetched_quakes >>

\* valid_geom_count: the features with a geometry and coordinates.
ValidGeomCount(features) ==
    Cardinality({ i \in DOMAIN features :
                    ~GeomIsNone(features[i].geometry) /\ Len(features[i].geometry.coordinates) > 0 })

\* Lines 111-129: the IEM request of the weather task.
TaskIem ==
    /\ wpc = "iem"
    /\ \E r \in IemResponses :
          /\ iem_response' = r
          /\ IF r.ok /\ ValidGeomCount(r.features) > 0
               THEN /\ fetched_weather' = fetched_weather \o r.features
                    /\ sources_used' = Append(sources_used, "IEM")
               ELSE UNCHANGED << fetched_weather, sources_used >>
    /\ wpc' = "nws"
    /\ UNCHANGED << xvars, avars, mvars, wildfire_source, nws_response, usgs_response,
                    qpc, fetched_quakes, rpc >>

\* Lines 131-176: the NWS request of the weather task, and its return.
TaskNws ==
    /\ wpc = "nws"
    /\ \E r \in NwsResponses :
          /\ nws_response' = r
          /\ IF r.ok
               THEN /\ fetched_weather' = fetched_weather \o r.features
                    /\ sources_used' = Append(sources_used, "NWS")
               ELSE UNCHANGED << fetched_weather, sources_used >>
    /\ wpc' = "returned"
    /\ UNCHANGED << xvars, avars, mvars, wildfire_source, iem_response, usgs_response,
                    qpc, fetched_quakes, rpc >>

\* The outage task: fetch_power_outages.
TaskHifld == FetchHifldFrom(RunHifldResponses)
TaskOdin == FetchOdinFrom(RunOdinResponses)

\* Mutant: a failed request makes the task raise, and result() raises it
\* again in the handler.
TaskUsgsRaises ==
    /\ qpc = "usgs"
    /\ \E r \in UsgsResponses :
          /\ usgs_response' = r
          /\ fetched_quakes' = IF r.ok THEN r.features ELSE <<>>
          /\ qpc' = IF r.ok THEN "returned" ELSE "raised"
    /\ UNCHANGED << xvars, avars, mvars, wildfire_source, iem_response, nws_response,
                    wpc, fetched_weather, sources_used, rpc >>

\* Lines 282-295: the earthquake task, fetch_earthquakes.
TaskUsgs ==
    /\ qpc = "usgs"
    /\ \E r \in UsgsResponses :
          /\ usgs_response' = r
          /\ fetched_quakes' = IF r.ok THEN r.features ELSE <<>>
    /\ qpc' = "returned"
    /\ UNCHANGED << xvars, avars, mvars, wildfire_source, iem_response, nws_response,
                    wpc, fetched_weather, sources_used, rpc >>

\* Lines 957-984: the three result() calls, then run_impact_analysis is
\* entered with what the tasks returned.
Collect ==
    /\ rpc = "wait"
    /\ wpc = "returned" /\ mpc = "returned" /\ qpc = "returned"
    /\ weather_features' = fetched_weather
    /\ outage_features' = all_features
    /\ earthquake_features' = fetched_quakes
    /\ pc' = "build"
    /\ rpc' = "analyze"
    /\ UNCHANGED << xvars, df_ips, enable_point_fallback, min_severity_rank, exclude_low_priority,
                    zones, use_point_fallback, rowvars, results, effects, mvars,
                    wildfire_source, iem_response, nws_response, usgs_response,
                    wpc, fetched_weather, sources_used, qpc, fetched_quakes >>

\* Lines 986-993: run_impact_analysis returned; the results are stored.
Store ==
    /\ rpc = "analyze"
    /\ pc = "done"
    /\ rpc' = "done"
    /\ UNCHANGED << xvars, avars, mvars, wildfire_source, iem_response, nws_response, usgs_response,
                    wpc, fetched_weather, sources_used, qpc, fetched_quakes >>

NextRun ==
    \/ Geolocate
    \/ Submit
    \/ TaskIem
    \/ TaskNws
    \/ TaskHifld
    \/ TaskOdin
    \/ TaskUsgs
    \/ Collect
    \/ BuildZones
    \/ DetermineFallback
    \/ CheckRow
    \/ PointFallback
    \/ Sleep
    \/ AppendResult
    \/ Return
    \/ Store

SpecRun == InitRun /\ [][NextRun]_vars

(***************************************************************************)
(* The fallback phase: runs over several points whose weather feed has no  *)
(* usable polygon, so that the points no polygon flags are queried one     *)
(* after the other.                                                        *)
(***************************************************************************)
MaxFallbackPoints == 2

FallbackRowSet == { Row("10.0.0.1", 2, 3), Row("10.0.0.2", 900, 100), Row("10.0.0.7", NoCoord, NoCoord) }

InitFallback ==
    /\ df_ips \in SeqsUpTo(FallbackRowSet, MaxFallbackPoints)
    /\ weather_features = << ZoneBasedAlert >>
    /\ outage_features \in { <<>>, << CountyOutage >> }
    /\ earthquake_features = <<>>
    /\ enable_point_fallback \in BOOLEAN
    /\ min_severity_rank \in MinRanks
    /\ exclude_low_priority = FALSE
    /\ pc = "build"
    /\ AnalysisLocalsInit
    /\ MergeIdle
    /\ RunIdle

NextFallback ==
    \/ BuildZones
    \/ DetermineFallback
    \/ CheckRow
    \/ PointFallback
    \/ Sleep
    \/ AppendResult
    \/ Return

SpecFallback == InitFallback /\ [][NextFallback]_vars

(***************************************************************************)
(* get_geolocation_bulk.                                                   *)
(***************************************************************************)
chunk_size == 100

MaxBatches == 2

\* The k-th address of the inputs.
IpOf(k) == "10.0." \o ToString(k \div 256) \o "." \o ToString(k % 256)

\* The numbers of distinct addresses: none, one, and around each multiple of
\* the chunk size.
GeoSizes == {0, 1} \cup UNION { {b * chunk_size, b * chunk_size + 1} : b \in 1..MaxBatches }

\* An input list of n distinct addresses, with one of them repeated and with
\* an empty string where asked.
InputList(n, repeated, blank) ==
    [j \in 1..n |-> IpOf(j)]
        \o (IF repeated /\ n > 0 THEN << IpOf(1) >> ELSE <<>>)
        \o (IF blank THEN << "" >> ELSE <<>>)

\* list(filter(None, set(ip_list))): the distinct non-empty strings.  The
\* iteration order of a set is arbitrary; two orders are drawn here.
DistinctNonEmpty(list) == { list[j] : j \in DOMAIN list } \ { "" }

UniqueOrders(S) ==
    LET n == Cardinality(S)
    IN  { s \in { [j \in 1..n |-> IpOf(j)], [j \in 1..n |-> IpOf(n + 1 - j)] } :
            { s[j] : j \in 1..n } = S }

\* ip_list[i:i + chunk_size]
Chunk(list, i) ==
    SubSeq(list, i + 1, IF i + chunk_size <= Len(list) THEN i + chunk_size ELSE Len(list))

\* What the geolocation service can do with a batch: the request raises
\* (connection error, timeout, a body that is not JSON), the body is JSON but
\* not a list, or it is a list with one item per address, each with its
\* status.
BatchItems(chunk, failing) ==
    [j \in DOMAIN chunk |->
        [status |-> IF j \in failing THEN "fail" ELSE "success", query |-> chunk[j]]]

BatchResponses(chunk) ==
    { [kind |-> "raised", items |-> <<>>],
      [kind |-> "not_list", items |-> <<>>],
      [kind |-> "list", items |-> BatchItems(chunk, {})],
      [kind |-> "list", items |-> BatchItems(chunk, {1})],
      [kind |-> "list", items |-> BatchItems(chunk, DOMAIN chunk)] }

\* Lines 341-364: the record of one item of a list response.
ItemRecord(res) ==
    IF res.status = "success"
    THEN [ip |-> res.query, lat |-> 3, lon |-> 2, city |-> "Town"]
    ELSE [ip |-> res.query, lat |-> NoCoord, lon |-> NoCoord, city |-> "N/A"]

\* Lines 371-380: the record of an address of a chunk whose request raised.
ErrorRecord(ip) == [ip |-> ip, lat |-> NoCoord, lon |-> NoCoord, city |-> "Error"]

\* Lines 334-382: what one chunk adds to coords.
ChunkRecords(response, chunk) ==
    CASE response.kind = "raised" -> [j \in DOMAIN chunk |-> ErrorRecord(chunk[j])]
      [] response.kind = "not_list" -> <<>>
      [] OTHER -> [j \in DOMAIN response.items |-> ItemRecord(response.items[j])]

InitGeo ==
    /\ \E n \in GeoSizes, repeated \in BOOLEAN, blank \in BOOLEAN :
          ip_list = InputList(n, repeated, blank)
    /\ unique_ips = <<>>
    /\ chunk_start = 0
    /\ coords = <<>>
    /\ geo_requests = <<>>
    /\ geo_delays = 0
    /\ gpc = "dedupe"
    /\ SessionIdle
    /\ AnalysisIdle
    /\ MergeIdle
    /\ wildfire_source = <<>>
    /\ iem_response = FailedResponse
    /\ nws_response = FailedResponse
    /\ usgs_response = FailedResponse
    /\ wpc = "idle"
    /\ fetched_weather = <<>>
    /\ sources_used = <<>>
    /\ qpc = "idle"
    /\ fetched_quakes = <<>>
    /\ rpc = "idle"

\* Line 327: duplicates and empty strings removed.
Dedupe ==
    /\ gpc = "dedupe"
    /\ unique_ips' \in UniqueOrders(DistinctNonEmpty(ip_list))
    /\ gpc' = "request"
    /\ UNCHANGED << svars, avars, mvars, rvars, ip_list, chunk_start, coords, geo_requests, geo_delays >>

\* Lines 332-364 and 369-380: the next chunk is posted and its answer turned
\* into records; when the request raises, the except block runs and the loop
\* goes on with the next chunk.
BatchRequest ==
    /\ gpc = "request"
    /\ chunk_start < Len(unique_ips)
    /\ LET chunk == Chunk(unique_ips, chunk_start)
       IN  \E response \in BatchResponses(chunk) :
              /\ geo_requests' = Append(geo_requests,
                                        [start |-> chunk_start, size |-> Len(chunk),
                                         kind |-> response.kind])
              /\ coords' = coords \o ChunkRecords(response, chunk)
              /\ IF response.kind = "raised"
                 THEN gpc' = "request" /\ chunk_start' = chunk_start + chunk_size
                 ELSE gpc' = "sleep" /\ chunk_start' = chunk_start
    /\ UNCHANGED << svars, avars, mvars, rvars, ip_list, unique_ips, geo_delays >>

\* Line 367: time.sleep(1.0), the last statement of the try block.
BatchSleep ==
    /\ gpc = "sleep"
    /\ geo_delays' = geo_delays + 1
    /\ chunk_start' = chunk_start + chunk_size
    /\ gpc' = "request"
    /\ UNCHANGED << svars, avars, mvars, rvars, ip_list, unique_ips, coords, geo_requests >>

\* Line 382: return pd.DataFrame(coords)
GeoReturn ==
    /\ gpc = "request"
    /\ chunk_start >= Len(unique_ips)
    /\ gpc' = "done"
    /\ UNCHANGED << svars, avars, mvars, rvars, ip_list, unique_ips, chunk_start, coords,
                    geo_requests, geo_delays >>

NextGeo ==
    \/ Dedupe
    \/ BatchRequest
    \/ BatchSleep
    \/ GeoReturn

SpecGeo == InitGeo /\ [][NextGeo]_vars

(***************************************************************************)
(* get_freshness_info.  The icons are named by their colour: "white" is    *)
(* the white circle, "green", "yellow", "orange" and "red" the coloured    *)
(* ones.                                                                   *)
(***************************************************************************)
MaxAgeMinutes == 61

FreshnessResult(age_str, icon, is_stale) ==
    [age_str |-> age_str, icon |-> icon, is_stale |-> is_stale]

\* int(age_seconds // 60)
AgeMinutes(fetch_timestamp, clock) == (clock - fetch_timestamp) \div 60

MinAgo(age_min) == ToString(age_min) \o " min ago"

\* Mutant: a quarter of an hour still counts as recent.
get_freshness_info_late(fetch_timestamp, clock) ==
    IF fetch_timestamp = NoneNum THEN FreshnessResult("Unknown", "white", FALSE)
    ELSE LET age_min == AgeMinutes(fetch_timestamp, clock)
         IN  IF age_min < 1 THEN FreshnessResult("just now", "green", FALSE)
             ELSE IF age_min < 10 THEN FreshnessResult(MinAgo(age_min), "green", FALSE)
             ELSE IF age_min <= 15 THEN FreshnessResult(MinAgo(age_min), "yellow", FALSE)
             ELSE IF age_min < 30 THEN FreshnessResult(MinAgo(age_min), "orange", TRUE)
             ELSE FreshnessResult(MinAgo(age_min), "red", TRUE)

\* Lines 646-671, with datetime.now() passed in as clock.
get_freshness_info(fetch_timestamp, clock) ==
    IF fetch_timestamp = NoneNum THEN FreshnessResult("Unknown", "white", FALSE)
    ELSE LET age_min == AgeMinutes(fetch_timestamp, clock)
         IN  IF age_min < 1 THEN FreshnessResult("just now", "green", FALSE)
             ELSE IF age_min < 5 THEN FreshnessResult(MinAgo(age_min), "green", FALSE)
             ELSE IF age_min < 10 THEN FreshnessResult(MinAgo(age_min), "green", FALSE)
             ELSE IF age_min < 15 THEN FreshnessResult(MinAgo(age_min), "yellow", FALSE)
             ELSE IF age_min < 30 THEN FreshnessResult(MinAgo(age_min), "orange", TRUE)
             ELSE IF age_min < 60 THEN FreshnessResult(MinAgo(age_min), "red", TRUE)
             ELSE FreshnessResult(ToString(age_min \div 60) \o "h "
                                     \o ToString(age_min % 60) \o "m ago", "red", TRUE)

\* The ages drawn: the first and the last second of every minute.
FreshnessAges == { a \in 0..(MaxAgeMinutes * 60 + 59) : a % 60 \in {0, 59} }

FetchTimes == {NoneNum, 0, 45}

InitFreshness ==
    /\ \E ts \in FetchTimes, age \in FreshnessAges :
          /\ session_state = [NewSession EXCEPT !.fetch_timestamp = ts]
          /\ now = (IF ts = NoneNum THEN 0 ELSE ts) + age
    /\ page = BlankPage
    /\ last_event = "none"
    /\ bulk_fetches = 0
    /\ provenance = Nothing
    /\ GeoIdle
    /\ AnalysisIdle
    /\ MergeIdle
    /\ wildfire_source = <<>>
    /\ iem_response = FailedResponse
    /\ nws_response = FailedResponse
    /\ usgs_response = FailedResponse
    /\ wpc = "idle"
    /\ fetched_weather = <<>>
    /\ sources_used = <<>>
    /\ qpc = "idle"
    /\ fetched_quakes = <<>>
    /\ rpc = "idle"

\* Lines 1021-1022 and 1048-1054: the freshness metric and the staleness
\* warning of the page.
ShowFreshness ==
    /\ last_event = "none"
    /\ LET info == get_freshness_info(session_state.fetch_timestamp, now)
       IN  page' = [page EXCEPT !.age_str = info.age_str, !.icon = info.icon,
                                !.is_stale = info.is_stale, !.stale_warning = info.is_stale]
    /\ last_event' = "freshness"
    /\ UNCHANGED << avars, mvars, rvars, gvars, session_state, now, bulk_fetches, provenance >>

NextFreshness == ShowFreshness

SpecFreshness == InitFreshness /\ [][NextFreshness]_vars

(***************************************************************************)
(* The page as a whole: one script run per UI event.  A script run handles *)
(* the event (the sidebar handlers of lines 908-937, the Run handler of    *)
(* lines 939-995) and then displays the metrics (lines 999-1054).  The     *)
(* handlers call run_impact_analysis, taken here as one function of its    *)
(* arguments and of the answers of the remote point queries.               *)
(***************************************************************************)
MaxTicks == 1

MaxRuns == 2

\* Lines 575-642 for one row, response being the answer to its remote query.
RowRecord(row, wpolys, opolys, epolys, fallback, response, min_rank, exclude_low) ==
    LET hz == IF Resolved(row)
              THEN PolygonHazards(wpolys, opolys, epolys, PointOf(row))
              ELSE <<>>
        alerts == IF NeedsFallback(row, fallback, hz # <<>>)
                  THEN check_point_alerts_nws(response, min_rank, exclude_low)
                  ELSE <<>>
    IN  ResultRecord(row, hz # <<>> \/ alerts # <<>>, hz \o alerts,
                     IF alerts # <<>> THEN "point-api" ELSE "polygon")

\* run_impact_analysis: whether it returned, which session keys it wrote
\* before it returned or raised (lines 512-513 and 562), and what it returned.
ImpactAnalysis(df, weather, outages, quakes, enable, min_rank, exclude_low, responses) ==
    IF LoopRaises(weather)
    THEN [returned |-> FALSE, stats_stored |-> FALSE, fallback_stored |-> FALSE,
          geom_stats |-> EmptyGeomStats, filter_stats |-> EmptyFilterStats,
          use_point_fallback |-> FALSE, results |-> <<>>]
    ELSE LET outcomes == WeatherOutcomes(weather, min_rank, exclude_low)
             stats == BuildGeomStats(outcomes)
         IN  IF LoopRaises(outages) \/ LoopRaises(quakes)
             THEN [returned |-> FALSE, stats_stored |-> TRUE, fallback_stored |-> FALSE,
                   geom_stats |-> stats, filter_stats |-> BuildFilterStats(outcomes),
                   use_point_fallback |-> FALSE, results |-> <<>>]
             ELSE LET wpolys == BuildWeatherPolys(weather, outcomes)
                      opolys == BuildOutagePolys(outages)
                      epolys == BuildEarthquakePolys(quakes)
                      fallback == UsePointFallback(enable, stats)
                  IN  [returned |-> TRUE, stats_stored |-> TRUE, fallback_stored |-> TRUE,
                       geom_stats |-> stats, filter_stats |-> BuildFilterStats(outcomes),
                       use_point_fallback |-> fallback,
                       results |-> [k \in DOMAIN df |->
                                      RowRecord(df[k], wpolys, opolys, epolys, fallback,
                                                responses[k], min_rank, exclude_low)]]

\* The session keys run_impact_analysis wrote.
WithAnalysisKeys(ss, out) ==
    [ss EXCEPT
        !.geom_stats = IF out.stats_stored THEN Some(out.geom_stats) ELSE @,
        !.filter_stats = IF out.stats_stored THEN Some(out.filter_stats) ELSE @,
        !.using_point_fallback = IF out.fallback_stored THEN out.use_point_fallback ELSE @]

\* The call of lines 824-832 on the stored snapshot (a None list is taken as
\* [] by lines 439-441).
SnapshotAnalysis(ss, responses) ==
    ImpactAnalysis(ss.geo_data.val, ss.weather_data.val, ss.outage_data.val,
                   ss.earthquake_data.val, ss.enable_fallback, ss.min_severity_rank,
                   ss.exclude_low_priority, responses)

HasSnapshot(ss) == ss.geo_data.some /\ ss.weather_data.some

\* Mutant: the analysis is re-run as soon as geo_data is stored.
rerun_analysis_with_filters_geo_only(ss, responses) ==
    IF ss.geo_data.some
    THEN LET out == SnapshotAnalysis(ss, responses)
             written == WithAnalysisKeys(ss, out)
         IN  IF out.returned
             THEN [written EXCEPT !.analysis_results = Some(out.results)]
             ELSE written
    ELSE ss

\* Lines 818-835: the session state after rerun_analysis_with_filters.
rerun_analysis_with_filters(ss, responses) ==
    IF HasSnapshot(ss)
    THEN LET out == SnapshotAnalysis(ss, responses)
             written == WithAnalysisKeys(ss, out)
         IN  IF out.returned
             THEN [written EXCEPT !.analysis_results = Some(out.results)]
             ELSE written
    ELSE ss

\* The call whose return value a handler stored.
ProvenanceOf(ss, out) ==
    Some([min_severity_rank |-> ss.min_severity_rank,
          exclude_low_priority |-> ss.exclude_low_priority,
          enable_fallback |-> ss.enable_fallback,
          geom_stats |-> out.geom_stats, filter_stats |-> out.filter_stats,
          use_point_fallback |-> out.use_point_fallback])

\* Lines 999-1054: the metrics row and the staleness warning, displayed when
\* analysis_results is not None; nothing of it is displayed by a script run
\* that an exception ended.
Metrics(ss, clock, reached) ==
    IF reached /\ ss.analysis_results.some
    THEN LET df_final == ss.analysis_results.val
             info == get_freshness_info(ss.fetch_timestamp, clock)
         IN  [shown |-> TRUE,
              total_clients |-> Len(df_final),
              at_risk |-> Cardinality({ k \in DOMAIN df_final : df_final[k].is_at_risk }),
              age_str |-> info.age_str, icon |-> info.icon, is_stale |-> info.is_stale,
              stale_warning |-> info.is_stale]
    ELSE BlankPage

\* What the services hand to a Run: the frame of get_geolocation_bulk for one
\* or two addresses (the service fails to resolve the first of two), the
\* weather list, the outage list and the earthquake list.
GeoFrame(ips, failing) ==
    ChunkRecords([kind |-> "list", items |-> BatchItems(ips, failing)], ips)

SessionFrames == { GeoFrame(<< IpOf(1) >>, {}), GeoFrame(<< IpOf(1), IpOf(2) >>, {1}) }

StatementTriangle ==
    [geometry |-> Polygon(TriangleRing),
     properties |-> WeatherProps("Special Weather Statement", "Moderate", "Expected")]

SessionWeather == { <<>>, << ZoneBasedAlert >>, << StatementTriangle >> }

SessionOutages == { <<>>, << ZoneOutage(ArrayGeometry, "County A") >> }

SessionRanks == {2, 3}

\* The answers of the point service, one per row; a row without coordinates
\* is never asked about (line 588), so its entry is the empty failure.
SessionResponses ==
    { [ok |-> FALSE, features |-> <<>>],
      [ok |-> TRUE, features |-> << WeatherProps("Winter Storm Warning", "Moderate", "Unknown") >>] }

PointAnswers(df) ==
    { answers \in [DOMAIN df -> SessionResponses] :
        \A k \in DOMAIN df : ~Resolved(df[k]) => ~answers[k].ok }

InitSession ==
    /\ SessionIdle
    /\ GeoIdle
    /\ AnalysisIdle
    /\ MergeIdle
    /\ wildfire_source = <<>>
    /\ iem_response = FailedResponse
    /\ nws_response = FailedResponse
    /\ usgs_response = FailedResponse
    /\ wpc = "idle"
    /\ fetched_weather = <<>>
    /\ sources_used = <<>>
    /\ qpc = "idle"
    /\ fetched_quakes = <<>>
    /\ rpc = "idle"

\* Lines 939-995 and 999-1054: Run Spatial Analysis with a non-empty IP list.
RunSpatialAnalysis ==
    /\ bulk_fetches < MaxRuns
    /\ \E df_geo \in SessionFrames, weather \in SessionWeather, outages \in SessionOutages :
       \E responses \in PointAnswers(df_geo) :
       \E fetched \in { [session_state EXCEPT !.geo_data = Some(df_geo),
                                              !.fetch_timestamp = now] } :
       \E out \in { ImpactAnalysis(df_geo, weather, outages, <<>>, fetched.enable_fallback,
                                   fetched.min_severity_rank, fetched.exclude_low_priority,
                                   responses) } :
       \E written \in { WithAnalysisKeys(fetched, out) } :
       \E stored \in { IF out.returned
                       THEN [written EXCEPT !.analysis_results = Some(out.results),
                                            !.weather_data = Some(weather),
                                            !.outage_data = Some(outages),
                                            !.earthquake_data = Some(<<>>)]
                       ELSE written } :
          /\ session_state' = stored
          /\ provenance' = IF out.returned THEN ProvenanceOf(fetched, out) ELSE provenance
          /\ page' = Metrics(stored, now, out.returned)
    /\ bulk_fetches' = bulk_fetches + 1
    /\ last_event' = "run"
    /\ UNCHANGED << avars, mvars, rvars, gvars, now >>

\* A sidebar handler that found its setting changed: the new session state,
\* the provenance and the page.
FilterChanged(changed, event) ==
    /\ \E before \in { changed } :
       \E responses \in PointAnswers(before.geo_data.val) :
       \E after \in { rerun_analysis_with_filters(before, responses) } :
       \E out \in { SnapshotAnalysis(before, responses) } :
          /\ session_state' = after
          /\ provenance' = IF HasSnapshot(before) /\ out.returned
                           THEN ProvenanceOf(before, out)
                           ELSE provenance
          /\ page' = Metrics(after, now, ~HasSnapshot(before) \/ out.returned)
    /\ last_event' = event
    /\ UNCHANGED << avars, mvars, rvars, gvars, now, bulk_fetches >>

\* Lines 908-912: the severity slider moved.
ChangeSeverity ==
    \E rank \in SessionRanks \ { session_state.min_severity_rank } :
        FilterChanged([session_state EXCEPT !.min_severity_rank = rank], "severity")

\* Lines 921-924: the informational-alert checkbox toggled.
ToggleExclude ==
    FilterChanged([session_state EXCEPT !.exclude_low_priority = ~@], "exclude")

\* Lines 934-937: the fallback checkbox toggled.
ToggleFallback ==
    FilterChanged([session_state EXCEPT !.enable_fallback = ~@], "fallback")

\* Time passes between two script runs.
Tick ==
    /\ now < MaxTicks * 600
    /\ now' = now + 600
    /\ UNCHANGED << avars, mvars, rvars, gvars, session_state, page, last_event, bulk_fetches,
                    provenance >>

NextSession ==
    \/ RunSpatialAnalysis
    \/ ChangeSeverity
    \/ ToggleExclude
    \/ ToggleFallback
    \/ Tick

SpecSession == InitSession /\ [][NextSession]_vars

(***************************************************************************)
(* Properties of run_impact_analysis.                                      *)
(***************************************************************************)
Done == pc = "done"

\* Every indexed zone of every category, as the polygon it is matched with.
IndexedZones ==
    { [cat |-> "weather", poly |-> weather_polys[i].poly, desc |-> weather_polys[i].desc] :
        i \in DOMAIN weather_polys }
    \cup { [cat |-> "outage", poly |-> outage_polys[i].poly, desc |-> outage_polys[i].desc] :
        i \in DOMAIN outage_polys }
    \cup { [cat |-> "earthquake", poly |-> ImpactZone(earthquake_polys[i]),
            desc |-> earthquake_polys[i].desc] : i \in DOMAIN earthquake_polys }

ResolvedRows == { i \in DOMAIN results : Resolved(df_ips[i]) }

\* The descriptions a risk_details string lists: its parts between " | ".
RECURSIVE SplitBar(_)
SplitBar(text) ==
    LET bars == { k \in 1..(Len(text) - 2) : SubSeq(text, k, k + 2) = " | " }
    IN  IF bars = {} THEN {text}
        ELSE {SubSeq(text, 1, MinOf(bars) - 1)}
                 \cup SplitBar(SubSeq(text, MinOf(bars) + 3, Len(text)))

Listed(record) == IF record.risk_details = "None" THEN {} ELSE SplitBar(record.risk_details)

ZonesContaining(i) == { z \in IndexedZones : Contains(z.poly, PointOf(df_ips[i])) }
ZonesWithinTolerance(i) ==
    { z \in IndexedZones : IntersectsBuffer(z.poly, PointOf(df_ips[i]), PointBufferRadius) }

\* C1: with the fallback not active, every resolved point strictly inside an
\* indexed zone of any category is at risk, has that zone's description among
\* its hazards, and has check_method "polygon".
C1_InteriorPointAtRisk ==
    (Done /\ ~use_point_fallback) =>
        \A i \in ResolvedRows : \A z \in ZonesContaining(i) :
            /\ results[i].is_at_risk
            /\ z.desc \in Listed(results[i])
            /\ results[i].check_method = "polygon"

\* C1 witness: fallback is enabled but not active, and a point inside both an
\* earthquake zone and a weather polygon got its record.
C1_Witness ==
    /\ Done
    /\ enable_point_fallback /\ ~use_point_fallback
    /\ \E i \in ResolvedRows :
          /\ \E z \in ZonesContaining(i) : z.cat = "earthquake"
          /\ \E z \in ZonesContaining(i) : z.cat = "weather"
          /\ results[i].is_at_risk

\* C2: containment with tolerance in every category: a resolved point on a
\* zone's edge, or outside it with its 0.001-degree buffer meeting the zone,
\* is at risk with that zone's description, whatever the zone's bounding box.
C2_ToleranceEveryCategory ==
    Done =>
        \A i \in ResolvedRows : \A z \in ZonesWithinTolerance(i) :
            /\ results[i].is_at_risk
            /\ z.desc \in Listed(results[i])

\* C3: with enable_point_fallback false, a resolved point whose buffer meets
\* no zone of any category is not at risk and has no hazards, also when a
\* category has no zones.
C3_ClearPointNotAtRisk ==
    (Done /\ ~enable_point_fallback) =>
        \A i \in ResolvedRows :
            ZonesWithinTolerance(i) = {} =>
                /\ ~results[i].is_at_risk
                /\ results[i].risk_details = "None"

\* C3 witness: fallback disabled, an earthquake zone whose bounding box holds
\* the point but whose polygon is far from it, no weather zone at all.
C3_Witness ==
    /\ Done
    /\ ~enable_point_fallback
    /\ weather_polys = <<>> /\ earthquake_polys # <<>>
    /\ \E i \in ResolvedRows :
          /\ ZonesWithinTolerance(i) = {}
          /\ QueryEarthquake(earthquake_polys, PointOf(df_ips[i])) # {}
          /\ ~results[i].is_at_risk

\* C4: no early exit: the hazards of a resolved point hold the description
\* of every zone, of every category, that contains the point, and a point
\* matched by a polygon has check_method "polygon".
C4_AllContainingZonesReported ==
    Done =>
        \A i \in ResolvedRows :
            /\ { z.desc : z \in ZonesContaining(i) } \subseteq Listed(results[i])
            /\ ZonesContaining(i) # {} => results[i].check_method = "polygon"

\* C4 witness: one point inside a weather polygon and an outage polygon, both
\* descriptions reported, by the polygon method.
C4_Witness ==
    /\ Done
    /\ \E i \in ResolvedRows :
          /\ \E z \in ZonesContaining(i) : z.cat = "weather" /\ z.desc \in Listed(results[i])
          /\ \E z \in ZonesContaining(i) : z.cat = "outage" /\ z.desc \in Listed(results[i])
          /\ results[i].check_method = "polygon"

\* The remote point queries issued for row i.
CallsFor(i) == { k \in DOMAIN api_calls : api_calls[k].row = i }

\* No polygon of any category matched row i, by the code's own tests.
PolygonsClear(i) ==
    PolygonHazards(weather_polys, outage_polys, earthquake_polys, PointOf(df_ips[i])) = <<>>

\* C5: a resolved point no polygon flagged gets, with the fallback active,
\* exactly one remote query; a non-empty answer makes it at risk with the
\* answered descriptions and check_method "point-api"; in every other case
\* (fallback inactive, polygon matched, empty answer) check_method is
\* "polygon".
C5_FallbackQueryAndMethod ==
    Done =>
        \A i \in DOMAIN results :
            IF Resolved(df_ips[i]) /\ PolygonsClear(i) /\ use_point_fallback
            THEN /\ Cardinality(CallsFor(i)) = 1
                 /\ \A k \in CallsFor(i) :
                       IF api_calls[k].alerts # <<>>
                       THEN /\ results[i].is_at_risk
                            /\ results[i].risk_details = RiskDetails(api_calls[k].alerts)
                            /\ results[i].check_method = "point-api"
                       ELSE results[i].check_method = "polygon"
            ELSE results[i].check_method = "polygon"

\* C5 witness: the weather feed has no usable geometry, the fallback is
\* active, and the remote query answered one alert for the point.
C5_Witness ==
    /\ Done
    /\ use_point_fallback
    /\ geom_stats.null_geometry = geom_stats.total_features
    /\ \E i \in DOMAIN results :
          /\ Cardinality(CallsFor(i)) = 1
          /\ results[i].is_at_risk
          /\ results[i].check_method = "point-api"
          /\ results[i].risk_details = "Winter Storm Warning (Moderate)"

\* C6: the fallback flag is true exactly when enable_point_fallback is true,
\* there is at least one feature, and the share of valid polygons is strictly
\* below one tenth.
C6_FallbackThreshold ==
    pc = "row" =>
        (use_point_fallback <=>
            /\ enable_point_fallback
            /\ geom_stats.total_features > 0
            /\ 10 * geom_stats.valid_polygons < geom_stats.total_features)

\* C6 witness: exactly 10% coverage (5 valid of 50) with the fallback enabled
\* was assessed and did not activate it.
C6_Witness ==
    /\ pc = "row"
    /\ enable_point_fallback
    /\ geom_stats.total_features = 50 /\ geom_stats.valid_polygons = 5
    /\ ~use_point_fallback

\* C7: a point with a null coordinate is recorded not at risk with no
\* hazards, no polygon test and no remote query is made for it, and its
\* record is flagged as unassessed in the output, not reported like a point
\* that was assessed and found clear.
C7_UnresolvedFlaggedUnassessed ==
    \A i \in DOMAIN results :
        ~Resolved(df_ips[i]) =>
            /\ ~results[i].is_at_risk
            /\ results[i].risk_details = "None"
            /\ i \notin tree_queries
            /\ CallsFor(i) = {}
            /\ DisplayStatus(results[i]) # "Clear"

(***************************************************************************)
(* Properties of fetch_power_outages.                                      *)
(***************************************************************************)
Merged == mpc = "returned"

\* A record of either feed, or of the merged list, as
\* <<name, state, percent, customers>>.
HifldReport(feat) ==
    << feat.properties.NAME, feat.properties.State,
       feat.properties.Percent_Out, feat.properties.Total_Out >>
OdinReport(feat) ==
    << feat.properties.county, feat.properties.state,
       feat.properties.percent_out, feat.properties.customers_out >>

ReportKey(rep) == << rep[1], rep[2] >>
PctVal(rep) == OrZero(rep[3])

HifldReports == { HifldReport(hifld_response.features[i]) : i \in DOMAIN hifld_response.features }
OdinReports == { OdinReport(odin_response.features[i]) : i \in DOMAIN odin_response.features }
InputReports == HifldReports \cup OdinReports
MergedReports == { HifldReport(all_features[i]) : i \in DOMAIN all_features }

Sharing(reports, key) == { r \in reports : ReportKey(r) = key }
KeysOf(reports) == { ReportKey(r) : r \in reports }

OnePerKey ==
    \A i, j \in DOMAIN all_features :
        ReportKey(HifldReport(all_features[i])) = ReportKey(HifldReport(all_features[j])) => i = j

\* C8: for every key the merged percent is the maximum percent over all input
\* records sharing the key (a missing percent counts as 0), from whichever
\* source and in whatever order, and the merged customer count is that of a
\* record that supplied the maximum.
C8_MergedPercentIsMaximum ==
    Merged =>
        \A m \in MergedReports :
            LET same == Sharing(InputReports, ReportKey(m))
                top == MaxOf({ PctVal(r) : r \in same })
            IN  /\ PctVal(m) = top
                /\ \E r \in same : PctVal(r) = top /\ r[4] = m[4]

\* The two feeds deliver the same collection: every report occurs as often in
\* one as in the other.
SameCollection ==
    /\ hifld_response.ok /\ odin_response.ok
    /\ \A rep \in InputReports :
          Cardinality({ i \in DOMAIN hifld_response.features :
                          HifldReport(hifld_response.features[i]) = rep })
          = Cardinality({ i \in DOMAIN odin_response.features :
                          OdinReport(odin_response.features[i]) = rep })

\* C9: when both feeds deliver the same collection, the merged list has one
\* record for each county of the collection and no other, every county
\* reported with a single percent and count keeps exactly those values, and
\* no county is reported below any percent the collection gives for it.
C9_MergeIdempotent ==
    (Merged /\ SameCollection) =>
        /\ KeysOf(MergedReports) = KeysOf(HifldReports)
        /\ OnePerKey
        /\ \A m \in MergedReports :
              LET same == Sharing(HifldReports, ReportKey(m))
              IN  /\ Cardinality(same) = 1 => m \in same
                  /\ \A r \in same : PctVal(m) >= PctVal(r)

\* C9 witness: both feeds delivered the same two counties and the merge
\* returned two records.
C9_Witness ==
    /\ Merged /\ SameCollection
    /\ Cardinality(KeysOf(HifldReports)) = 2
    /\ Len(all_features) = 2

\* C10: the merged list holds exactly one record for every key that any
\* successfully fetched feed reports and none for any other key, and a key
\* that only one feed reports carries the name, state, percent and count of
\* a record of that feed.
C10_UnionByKey ==
    Merged =>
        /\ KeysOf(MergedReports) = KeysOf(InputReports)
        /\ OnePerKey
        /\ \A m \in MergedReports :
              /\ ReportKey(m) \notin KeysOf(OdinReports) => m \in HifldReports
              /\ ReportKey(m) \notin KeysOf(HifldReports) => m \in OdinReports

\* C10 witness: one county came from both feeds, one from HIFLD only and one
\* from ODIN only, and the merge returned three records.
C10_Witness ==
    /\ Merged
    /\ hifld_response.ok /\ odin_response.ok
    /\ KeysOf(HifldReports) \cap KeysOf(OdinReports) # {}
    /\ KeysOf(HifldReports) \ KeysOf(OdinReports) # {}
    /\ KeysOf(OdinReports) \ KeysOf(HifldReports) # {}
    /\ Len(all_features) = 3

(***************************************************************************)
(* Properties of the severity filter.                                      *)
(***************************************************************************)
\* The rank table of the specification: any other label, a null label and a
\* missing label rank 0.
RankOfLabel(label) ==
    CASE label = "Extreme" -> 4
      [] label = "Severe" -> 3
      [] label = "Moderate" -> 2
      [] label = "Minor" -> 1
      [] OTHER -> 0

LowPriorityList ==
    { "Special Weather Statement", "Air Quality Alert", "Beach Hazards Statement",
      "Rip Current Statement", "Marine Weather Statement", "Hydrologic Outlook",
      "Short Term Forecast", "Hazardous Weather Outlook" }

\* C11: a weather feature is admitted by the filter if and only if the rank
\* of its severity label is at least min_severity_rank and it is not the case
\* that exclude_low_priority is set and its event is in the low-priority
\* list; labels outside the table, null and missing labels rank 0.
C11_SeverityFilterRule ==
    pc = "decide" =>
        \A i \in DOMAIN weather_features :
            LET props == weather_features[i].properties
                admitted == /\ RankOfLabel(props.severity) >= min_severity_rank
                            /\ ~(exclude_low_priority /\ props.event \in LowPriorityList)
            IN  /\ passes_severity_threshold(props, min_severity_rank, exclude_low_priority) <=> admitted
                /\ filter_stats.passed_filter = (IF admitted THEN 1 ELSE 0)
                /\ filter_stats.filtered_out = (IF admitted THEN 0 ELSE 1)
                /\ Len(weather_polys) = (IF admitted THEN 1 ELSE 0)

\* C11 witness: a Minor alert was rejected at threshold Moderate (2).
C11_Witness ==
    /\ pc = "decide"
    /\ weather_features # <<>>
    /\ weather_features[1].properties.severity = "Minor"
    /\ min_severity_rank = 2
    /\ ~exclude_low_priority
    /\ filter_stats.filtered_out = 1
    /\ weather_polys = <<>>

(***************************************************************************)
(* Properties of the zone lists.                                           *)
(***************************************************************************)
Built == pc \notin {"build", "idle", "raised"}

\* The filter rule of the specification, for one feature.
Admitted(props) ==
    /\ RankOfLabel(props.severity) >= min_severity_rank
    /\ ~(exclude_low_priority /\ props.event \in LowPriorityList)

\* The geometry carries a coordinate payload.
HasPayload(geom) == geom.type # NONE /\ Len(geom.coordinates) > 0

\* The geometry parses to a polygon that is valid, as it is or repaired, and
\* not empty.
YieldsPolygon(geom) ==
    /\ HasPayload(geom)
    /\ ~ShapeRaises(geom)
    /\ LET parsed == Shape(geom)
           usable == IF IsValid(parsed) THEN parsed ELSE MakeValid(parsed)
       IN  IsValid(usable) /\ ~IsEmpty(usable)

WeatherWith(P(_)) == { i \in DOMAIN weather_features : P(weather_features[i]) }

RejectedWithPayload(f) ==
    HasPayload(f.geometry) /\ Truthy(f.geometry.type) /\ ~Admitted(f.properties)
AdmittedUnusable(f) ==
    /\ HasPayload(f.geometry) /\ Truthy(f.geometry.type)
    /\ Admitted(f.properties) /\ ~YieldsPolygon(f.geometry)
AdmittedUsable(f) == Admitted(f.properties) /\ YieldsPolygon(f.geometry)

\* C12: the outage and earthquake zone lists are determined by the outage
\* and earthquake features alone, whatever the severity threshold and the
\* exclusion flag are, and a weather feature that the filter rejects is
\* counted as filtered out and never parsed: only admitted features are
\* counted as valid polygons or parse errors.
C12_FilterWeatherOnlyBeforeGeometry ==
    Built =>
        /\ outage_polys = BuildOutagePolys(outage_features)
        /\ Len(outage_polys) =
              Cardinality({ i \in DOMAIN outage_features : YieldsPolygon(outage_features[i].geometry) })
        /\ earthquake_polys = BuildEarthquakePolys(earthquake_features)
        /\ filter_stats.filtered_out = Cardinality(WeatherWith(RejectedWithPayload))
        /\ geom_stats.parse_errors = Cardinality(WeatherWith(AdmittedUnusable))
        /\ geom_stats.valid_polygons = Cardinality(WeatherWith(AdmittedUsable))
        /\ geom_stats.valid_polygons + geom_stats.parse_errors = filter_stats.passed_filter

\* C12 witness: at threshold Severe a Minor weather feature whose ring is too
\* short to parse was filtered out without a parse error being counted, and
\* the outage and earthquake features became zones.
C12_Witness ==
    /\ pc = "decide"
    /\ min_severity_rank = 3
    /\ \E i \in DOMAIN weather_features :
          /\ weather_features[i].geometry = ShortRing
          /\ weather_features[i].properties.severity = "Minor"
    /\ filter_stats.filtered_out >= 1
    /\ geom_stats.parse_errors = 0
    /\ outage_polys # <<>>
    /\ earthquake_polys # <<>>

(***************************************************************************)
(* Properties of the records.                                              *)
(***************************************************************************)
Rearranged(features, pi) == [k \in DOMAIN features |-> features[pi[k]]]

\* The risk_details of a resolved row when the zone lists are built from the
\* given feature lists and no remote query is made.
PolygonDetails(wfeatures, ofeatures, efeatures, row) ==
    RiskDetails(
        PolygonHazards(
            BuildWeatherPolys(wfeatures,
                WeatherOutcomes(wfeatures, min_severity_rank, exclude_low_priority)),
            BuildOutagePolys(ofeatures),
            BuildEarthquakePolys(efeatures),
            PointOf(row)))

\* C13: the risk_details of every record is the " | " join of its distinct
\* descriptions in sorted order, and it is the same string for every
\* rearrangement of the weather, outage and earthquake feature lists.
C13_SortedDeduplicatedOrderFree ==
    Done =>
        \A i \in DOMAIN results :
            /\ results[i].risk_details # "None" =>
                  results[i].risk_details = Join(Sorted(Listed(results[i])), " | ")
            /\ Resolved(df_ips[i]) =>
                  \A pw \in Permutations(DOMAIN weather_features),
                     po \in Permutations(DOMAIN outage_features),
                     pe \in Permutations(DOMAIN earthquake_features) :
                        PolygonDetails(Rearranged(weather_features, pw),
                                       Rearranged(outage_features, po),
                                       Rearranged(earthquake_features, pe),
                                       df_ips[i]) = results[i].risk_details

\* C13 witness: the point lies in two tornado zones with the same
\* description and in two outage counties, ingested in that order, and its
\* record lists the outages first, the 12% one before the 70% one, and the
\* tornado once.
C13_Witness ==
    /\ Done
    /\ weather_features = << TornadoTriangle, TornadoSquare >>
    /\ outage_features = << CountyOutage, RegionOutage >>
    /\ earthquake_features = <<>>
    /\ Len(weather_polys) = 2
    /\ \E i \in DOMAIN results :
          results[i].risk_details
              = "Power Outage: 12% - County Z | Power Outage: 70% - County X | Tornado Warning (Extreme/Immediate)"

\* C14: in every record is_at_risk is true exactly when the record carries
\* at least one hazard description, that is when risk_details is not "None",
\* for a polygon match and for a point-api result alike; the row being
\* assembled is flagged exactly when its hazard list is not empty.
C14_AtRiskIffHazards ==
    /\ \A i \in DOMAIN results :
          /\ results[i].is_at_risk <=> results[i].risk_details # "None"
          /\ results[i].is_at_risk <=> Listed(results[i]) # {}
          /\ results[i].check_method = "point-api" => results[i].is_at_risk
    /\ pc \in {"sleep", "append"} => (is_at_risk <=> hazards # <<>>)

\* C14 witness: a record flagged through the remote point query, with its
\* alert listed.
C14_Witness ==
    /\ Done
    /\ \E i \in DOMAIN results :
          /\ results[i].check_method = "point-api"
          /\ results[i].is_at_risk
          /\ Listed(results[i]) = {"Winter Storm Warning (Moderate)"}

(***************************************************************************)
(* Properties of the Run Spatial Analysis handler.                         *)
(***************************************************************************)
Stored == rpc = "done"

\* The text holds the word.
Mentions(text, word) ==
    \E k \in 1..(Len(text) - Len(word) + 1) : SubSeq(text, k, k + Len(word) - 1) = word

\* The active perimeters of the wildfire service that hold the point.
PerimetersAround(p) ==
    { k \in DOMAIN wildfire_source : Contains(Shape(wildfire_source[k].geometry), p) }

\* C15: a resolved point inside an active wildfire perimeter of the wildfire
\* service is marked at risk, and its record lists a description naming the
\* fire.
C15_WildfireMatched ==
    Stored =>
        \A i \in ResolvedRows : \A k \in PerimetersAround(PointOf(df_ips[i])) :
            /\ results[i].is_at_risk
            /\ \E d \in Listed(results[i]) :
                  Mentions(d, wildfire_source[k].properties.poly_IncidentName)

UpstreamPart(response) == IF response.ok THEN response.features ELSE <<>>

FetchStep == Submit \/ TaskIem \/ TaskNws \/ TaskHifld \/ TaskOdin \/ TaskUsgs \/ Collect

Members(features) == { features[i] : i \in DOMAIN features }

FailedCalls == { k \in DOMAIN api_calls : ~api_calls[k].ok }

\* C17: when the remote point query of a point fails, the query yields no
\* hazard, the point's record is not at risk, lists no hazard and keeps the
\* polygon method, the point is queried exactly once, and the run goes on:
\* a step is always possible until every point has its record.
C17_FailedQueryLeavesPointClear ==
    /\ \A k \in FailedCalls :
          LET i == api_calls[k].row
          IN  /\ api_calls[k].alerts = <<>>
              /\ Cardinality(CallsFor(i)) = 1
              /\ (i = index /\ pc \in {"sleep", "append"}) =>
                    (~is_at_risk /\ hazards = <<>> /\ check_method = "polygon")
              /\ i <= Len(results) =>
                    /\ ~results[i].is_at_risk
                    /\ results[i].risk_details = "None"
                    /\ results[i].check_method = "polygon"
    /\ pc \in {"fallback", "sleep", "append", "row"} => ENABLED NextFallback
    /\ pc = "done" => Len(results) = Len(df_ips)

\* A run of two points that is over: the query of the first failed with a
\* body that lists an alert, the query of the second returned an alert and
\* flagged it.
C17_Witness ==
    /\ pc = "done"
    /\ Len(df_ips) = 2
    /\ Len(api_calls) = 2
    /\ api_calls[1].row = 1 /\ ~api_calls[1].ok
    /\ api_calls[2].row = 2 /\ api_calls[2].alerts # <<>>
    /\ ~results[1].is_at_risk
    /\ results[2].is_at_risk

\* C18: the remote point queries of a run are paced: at most one query is
\* not yet followed by its delay, that query is the last one and the run is
\* then about to sleep, and whenever a query starts or the run is over every
\* earlier query has been followed by a delay, whatever it returned.
C18_QueriesPaced ==
    /\ Len(api_calls) - delays \in {0, 1}
    /\ (Len(api_calls) - delays = 1) <=> (pc = "sleep")
    /\ pc \in {"fallback", "done"} => delays = Len(api_calls)

\* The second query of a run is about to start, the first one failed, and one
\* delay has been slept.
C18_Witness ==
    /\ pc = "fallback"
    /\ Len(api_calls) = 1
    /\ ~api_calls[1].ok
    /\ delays = 1

(***************************************************************************)
(* Properties of the zone lists.                                           *)
(***************************************************************************)
\* The zone was created from a feature whose geometry carries a payload and
\* parses to a valid, non-empty polygon, and its polygon is that polygon.
PolygonZoneSound(zone, features) ==
    /\ IsValid(zone.poly) /\ ~IsEmpty(zone.poly)
    /\ \E i \in DOMAIN features :
          /\ YieldsPolygon(features[i].geometry)
          /\ zone.poly = ParsedPolygon(features[i].geometry)

\* The earthquake zone was created from a feature whose geometry carries a
\* payload and parses to a non-empty point, and its polygon, the buffer of
\* that point, is valid and not empty.
EarthquakeZoneSound(zone, features) ==
    /\ IsValid(ImpactZone(zone)) /\ ~IsEmpty(ImpactZone(zone))
    /\ \E i \in DOMAIN features :
          /\ HasPayload(features[i].geometry)
          /\ ~ShapeRaises(features[i].geometry)
          /\ ~IsEmpty(ShapePoint(features[i].geometry))
          /\ zone.quake_point = ShapePoint(features[i].geometry)

\* C19: every zone of the weather, outage and earthquake lists, from which
\* the indices are built, comes from a feature whose geometry has a payload
\* and parses to a valid, non-empty geometry, and no zone holds an invalid or
\* empty polygon.
C19_IndexedZonesValidNonEmpty ==
    Built =>
        /\ \A k \in DOMAIN weather_polys : PolygonZoneSound(weather_polys[k], weather_features)
        /\ \A k \in DOMAIN outage_polys : PolygonZoneSound(outage_polys[k], outage_features)
        /\ \A k \in DOMAIN earthquake_polys :
              EarthquakeZoneSound(earthquake_polys[k], earthquake_features)

\* The geometry is missing, empty or cannot be parsed or repaired to a
\* valid, non-empty polygon.
Unusable(f) == ~YieldsPolygon(f.geometry)

\* C20: the run never raises while it builds the zone lists, whatever the
\* weather, outage and earthquake features are, and once they are built
\* every weather feature whose geometry is missing, empty or unrepairable is
\* counted as null geometry or as a parse error, whatever its severity, and
\* only weather features with a usable geometry have a zone.
C20_BadGeometryCountedNeverRaises ==
    /\ pc # "raised"
    /\ Built =>
          /\ geom_stats.null_geometry + geom_stats.parse_errors
                = Cardinality(WeatherWith(Unusable))
          /\ Len(weather_polys) <= Len(weather_features) - Cardinality(WeatherWith(Unusable))

(***************************************************************************)
(* Properties of get_geolocation_bulk.                                     *)
(***************************************************************************)
\* C21: every batch request carries at most 100 addresses, and whenever a
\* batch request is about to be posted every earlier request, whether it
\* succeeded or raised, has been followed by the pacing delay.
C21_BatchesBoundedAndPaced ==
    /\ \A k \in DOMAIN geo_requests : geo_requests[k].size <= chunk_size
    /\ (gpc = "request" /\ chunk_start < Len(unique_ips)) => geo_delays = Len(geo_requests)

RecordsFor(ip) == { k \in DOMAIN coords : coords[k].ip = ip }

\* C22: the function returns exactly one record for every distinct non-empty
\* address of its input and no other record, whatever the service did.
C22_OneRecordPerIdentifier ==
    gpc = "done" =>
        /\ \A ip \in DistinctNonEmpty(ip_list) : Cardinality(RecordsFor(ip)) = 1
        /\ \A k \in DOMAIN coords : coords[k].ip \in DistinctNonEmpty(ip_list)

(***************************************************************************)
(* Properties of the result list.                                          *)
(***************************************************************************)
\* C23: the records follow the input points one for one and in input order:
\* while the rows are worked through the k-th record carries the id and the
\* coordinates of the k-th point, when the run is over there are as many
\* records as points, and a point without coordinates has its record
\* although it was neither looked up in an index nor queried remotely.
C23_OneRecordPerPointInOrder ==
    /\ pc \in {"row", "fallback", "sleep", "append", "done"} =>
          /\ Len(results) <= Len(df_ips)
          /\ pc \in {"row", "done"} => Len(results) = index - 1
          /\ \A k \in DOMAIN results :
                /\ results[k].ip = df_ips[k].ip
                /\ results[k].lat = df_ips[k].lat
                /\ results[k].lon = df_ips[k].lon
                /\ ~Resolved(df_ips[k]) => (k \notin tree_queries /\ CallsFor(k) = {})
    /\ pc = "done" => DOMAIN results = DOMAIN df_ips

\* A finished run over two points: the first has no coordinates, the second
\* lies in an outage county; both have their record, in this order.
C23_Witness ==
    /\ pc = "done"
    /\ Len(df_ips) = 2
    /\ ~Resolved(df_ips[1])
    /\ Resolved(df_ips[2])
    /\ Len(results) = 2
    /\ results[1].ip = df_ips[1].ip /\ results[1].lat = NoCoord
    /\ results[2].ip = df_ips[2].ip /\ results[2].is_at_risk
    /\ tree_queries = {2}

Located(df) == { k \in DOMAIN df : Resolved(df[k]) }

\* C25: the "Total Clients" metric equals the number of addresses that were
\* successfully geolocated; an address that could not be located is not
\* counted.
C25_TotalClientsCountsLocated ==
    page.shown =>
        page.total_clients = Cardinality(Located(session_state.analysis_results.val))

\* C27: whenever analysis_results holds a non-empty frame, it is the value of
\* a call of run_impact_analysis made with the session's present
\* min_severity_rank, exclude_low_priority and enable_fallback, and the
\* geom_stats, filter_stats and using_point_fallback of the session are the
\* ones that call computed.
C27_ResultsMatchSettingsAndStats ==
    (session_state.analysis_results.some /\ session_state.analysis_results.val # <<>>) =>
        /\ provenance.some
        /\ provenance.val.min_severity_rank = session_state.min_severity_rank
        /\ provenance.val.exclude_low_priority = session_state.exclude_low_priority
        /\ provenance.val.enable_fallback = session_state.enable_fallback
        /\ session_state.geom_stats = Some(provenance.val.geom_stats)
        /\ session_state.filter_stats = Some(provenance.val.filter_stats)
        /\ session_state.using_point_fallback = provenance.val.use_point_fallback

\* A script run in which a sidebar handler found its setting changed.
SettingChanged ==
    \/ session_state'.min_severity_rank # session_state.min_severity_rank
    \/ session_state'.exclude_low_priority # session_state.exclude_low_priority
    \/ session_state'.enable_fallback # session_state.enable_fallback

\* C30: a change of a filter setting leaves geo_data, weather_data,
\* outage_data, earthquake_data and fetch_timestamp as they were and fetches
\* nothing; while geo_data or weather_data is None it changes the setting and
\* nothing else, analysis_results in particular.
C30_RerunKeepsSnapshot ==
    [][SettingChanged =>
          /\ session_state'.geo_data = session_state.geo_data
          /\ session_state'.weather_data = session_state.weather_data
          /\ session_state'.outage_data = session_state.outage_data
          /\ session_state'.earthquake_data = session_state.earthquake_data
          /\ session_state'.fetch_timestamp = session_state.fetch_timestamp
          /\ bulk_fetches' = bulk_fetches
          /\ ~HasSnapshot(session_state) =>
                /\ session_state'.analysis_results = session_state.analysis_results
                /\ session_state'.geom_stats = session_state.geom_stats
                /\ session_state'.filter_stats = session_state.filter_stats
                /\ session_state'.using_point_fallback = session_state.using_point_fallback
      ]_vars

\* A severity change re-ran the analysis, ten minutes after the fetch, on
\* the stored snapshot, and filtered out its one alert.
C30_Witness ==
    /\ last_event = "severity"
    /\ HasSnapshot(session_state)
    /\ session_state.fetch_timestamp < now
    /\ provenance.some
    /\ provenance.val.min_severity_rank = 3
    /\ session_state.min_severity_rank = 3
    /\ session_state.filter_stats.val.filtered_out = 1
    /\ bulk_fetches = 1

\* The fallback decision of a run over the same weather collection and the
\* same enable_point_fallback under other severity settings.
DecisionUnder(min_rank, exclude_low) ==
    UsePointFallback(enable_point_fallback,
                     BuildGeomStats(WeatherOutcomes(weather_features, min_rank, exclude_low)))

Decided == pc \in {"row", "fallback", "sleep", "append", "done"}

\* C26: once a run has reached its fallback decision, a run over the same
\* weather collection and the same enable_point_fallback under any other
\* min_severity_rank and exclude_low_priority reaches the same decision.
C26_FallbackDecisionIgnoresSeverity ==
    Decided =>
        \A min_rank \in MinRanks, exclude_low \in BOOLEAN :
            DecisionUnder(min_rank, exclude_low) = use_point_fallback

\* C28: at every moment of a run, each remote point query issued so far was
\* for a row with coordinates that no weather, outage or earthquake polygon
\* matched, and was issued while the fallback flag was true; no row has more
\* than one query, and with the flag false there is none.
C28_QueryOnlyClearResolvedOncePerPoint ==
    /\ \A k \in DOMAIN api_calls :
          /\ Resolved(df_ips[api_calls[k].row])
          /\ PolygonsClear(api_calls[k].row)
          /\ use_point_fallback
    /\ \A i \in DOMAIN df_ips : Cardinality(CallsFor(i)) <= 1
    /\ ~use_point_fallback => api_calls = <<>>

\* C28 witness: a finished run with the fallback active over a point inside
\* the outage county, which was not queried, and a point no polygon
\* matched, which was queried once.
C28_Witness ==
    /\ Done
    /\ use_point_fallback
    /\ Len(api_calls) = 1
    /\ \E i, j \in DOMAIN df_ips :
          /\ Resolved(df_ips[i])
          /\ ~PolygonsClear(i)
          /\ CallsFor(i) = {}
          /\ Resolved(df_ips[j])
          /\ PolygonsClear(j)
          /\ Cardinality(CallsFor(j)) = 1

\* C29: once the weather zone list is built, the four counters account for
\* every weather feature, the two filter counters for every feature that
\* reached the filter, and there are as many weather zones as valid polygons.
C29_WeatherFeaturesAccountedOnce ==
    Built =>
        /\ geom_stats.total_features = Len(weather_features)
        /\ geom_stats.total_features =
              geom_stats.valid_polygons + geom_stats.null_geometry
              + geom_stats.parse_errors + filter_stats.filtered_out
        /\ filter_stats.total_alerts = filter_stats.passed_filter + filter_stats.filtered_out
        /\ geom_stats.valid_polygons = Len(weather_polys)

\* C29 witness: of two weather features one was filtered out and the other
\* became the only weather zone.
C29_Witness ==
    /\ Built
    /\ geom_stats.total_features = 2
    /\ filter_stats.filtered_out = 1
    /\ geom_stats.valid_polygons = 1
    /\ Len(weather_polys) = 1

=============================================================================
